---- MODULE Spec2Model ----
(***************************************************************************)
(* A model of the MCP OpenAPI template server: the credential store        *)
(* (src/src/auth_gateway.py), the retry loop (src/src/server.py), the      *)
(* operation compiler and per-operation callables                          *)
(* (src/src/openapi_tools.py) and the policy engine                        *)
(* (src/src/tool_policies.py).                                             *)
(*                                                                         *)
(* The module holds several specifications over one set of variables:      *)
(*   SpecAuth   the credential store under concurrent authenticate calls   *)
(*   SpecRetry  with_retry around a call with arbitrary outcomes           *)
(*   SpecTools  compilation of an API description, then tool invocations   *)
(*   SpecBackoff, SpecCompile, SpecPolicy, SpecApi: with_retry with other  *)
(*   delays, compilation alone, the tool policies, api_request             *)
(* Each one leaves the variables of the other parts at their initial       *)
(* values.                                                                 *)
(***************************************************************************)
EXTENDS Integers, Sequences, FiniteSets, TLC

VARIABLES
    \* ---- credential store (AuthGatewayService) ----
    cache,              \* _cache: dict jwt -> APICredentials
    current_jwt,        \* _current_jwt: the active session pointer, or None
    cache_ttl_seconds,  \* cache_ttl_seconds, fixed at construction
    now,                \* datetime.utcnow(), in whole seconds
    task,               \* the asyncio tasks inside authenticate
    fetches,            \* number of GETs sent to the gateway so far
    ret,                \* the outcome of the call that has just completed
    \* ---- with_retry ----
    max_attempts,       \* the max_attempts argument
    retry_pc,           \* where with_retry is: "loop", "sleeping", "returned", "raised"
    attempt,            \* the loop variable
    last_exception,     \* last_exception
    func_calls,         \* the outcomes of the calls of func made so far, in order
    slept,              \* the attempts after which asyncio.sleep was awaited
    retry_result,       \* what with_retry returned or raised
    base_delay,         \* the base_delay argument, in seconds
    max_delay,          \* the max_delay argument, in seconds
    total_delay,        \* delay and jitter as last computed
    \* ---- tools (openapi_tools.py, tool_policies.py) ----
    api_spec,           \* the "paths" of the OpenAPI document at SPEC_PATH
    tool_prefix,        \* config.api.tool_prefix
    policy_config,      \* config.policies and ENABLE_CRITICAL_TOOLS
    tools,              \* the tools registered with FastMCP, in order
    tool_count,         \* what register_openapi_tools returned
    server_pc,          \* "start" before main has registered the tools, then "serving"
    last_call,          \* the last invocation of a generated tool
    policy_query,       \* the last query of the tool policies and its answer
    \* ---- api_request (server.py) ----
    api_call,           \* where the call of api_request is, and how it ended
    \* ---- _sanitize_name (openapi_tools.py) ----
    sanitize_call       \* the last call of _sanitize_name and what it returned

authVars == <<cache, current_jwt, cache_ttl_seconds, now, task, fetches, ret>>

retryVars == <<max_attempts, retry_pc, attempt, last_exception, func_calls, slept,
               retry_result, base_delay, max_delay, total_delay>>

toolVars == <<api_spec, tool_prefix, policy_config, tools, tool_count, server_pc,
              last_call>>

policyVars == <<policy_query>>

facadeVars == <<api_call>>

nameVars == <<sanitize_call>>

vars == <<authVars, retryVars, toolVars, policyVars, facadeVars, nameVars>>

\* what the actions of one part leave alone
nonAuthVars == <<retryVars, toolVars, policyVars, facadeVars, nameVars>>

nonRetryVars == <<authVars, toolVars, policyVars, facadeVars, nameVars>>

nonToolVars == <<authVars, retryVars, policyVars, facadeVars, nameVars>>

nonPolicyVars == <<authVars, retryVars, toolVars, facadeVars, nameVars>>

nonFacadeVars == <<authVars, retryVars, toolVars, policyVars, nameVars>>

nonNameVars == <<authVars, retryVars, toolVars, policyVars, facadeVars>>

-----------------------------------------------------------------------------
(* Bounds of the model *)

MaxTime == 2        \* the clock runs over 0..MaxTime
MaxTtl == 1         \* cache_ttl_seconds is drawn from 0..MaxTtl
MaxFetches == 3     \* total gateway GETs in one behaviour
MaxAttempts == 3    \* max_attempts is drawn from -1..MaxAttempts
MaxPaths == 2       \* a description holds up to MaxPaths path items
MaxPrefixLen == 64  \* the longest configured tool prefix
MaxSeedLen == 4     \* the longest seed _sanitize_name is called with directly
MaxNameLen == 4     \* the largest max_length of those calls

\* the name limit of MCP, openapi_tools.py line 141
McpNameLimit == 64

\* the default of max_attempts, server.py line 134
RETRY_MAX_ATTEMPTS == 3

\* the default of base_delay in seconds, server.py line 135
RETRY_BASE_DELAY == 1

\* the default of max_delay in seconds, server.py line 136
RETRY_MAX_DELAY == 30

None == "None"

\* Session tokens.  set_auth_token rejects empty and blank tokens and strips
\* the rest (server.py:305-311), so every token reaching the service is a
\* non-empty string.
Tokens == {"jwtA", "jwtB"}

\* The asyncio tasks that may be inside authenticate at the same time
Tasks == {"task1", "task2"}

PutAlone(d, k, v) == [x \in {k} |-> v]

Put(d, k, v) == [x \in (DOMAIN d) \cup {k} |-> IF x = k THEN v ELSE d[x]]

Drop(d, k) == [x \in (DOMAIN d) \ {k} |-> d[x]]

EmptyDict == <<>>

-----------------------------------------------------------------------------
(* Configuration: auth.credentials_format, a list of CredentialMapping *)

credentials_format ==
    << [name |-> "api_key", query_param |-> "key", header |-> None, prefix |-> ""],
       [name |-> "token", query_param |-> "token", header |-> None, prefix |-> ""],
       [name |-> "bearer", query_param |-> None, header |-> "Authorization",
        prefix |-> "Bearer "] >>

ExpectedCreds == {credentials_format[i].name : i \in 1..Len(credentials_format)}

-----------------------------------------------------------------------------
(* APICredentials *)

APICredentials(credentials, fetched_at, ttl_seconds) ==
    [credentials |-> credentials, fetched_at |-> fetched_at,
     ttl_seconds |-> ttl_seconds]

expires_at_fetch(c) == c.fetched_at

expires_at(c) == c.fetched_at + c.ttl_seconds

is_expired_late(c) == now >= expires_at(c)

is_expired(c) == now > expires_at(c)

PrefixedValue(m, value) == IF m.prefix # "" THEN m.prefix \o value ELSE value

RECURSIVE AuthParamsFrom(_, _, _)
AuthParamsFrom(credentials, i, params) ==
    IF i > Len(credentials_format) THEN params
    ELSE LET m == credentials_format[i] IN
         IF m.name \in DOMAIN credentials /\ m.query_param # None
         THEN AuthParamsFrom(credentials, i + 1,
                  Put(params, m.query_param,
                      PrefixedValue(m, credentials[m.name])))
         ELSE AuthParamsFrom(credentials, i + 1, params)

to_auth_params(c) == AuthParamsFrom(c.credentials, 1, EmptyDict)

RECURSIVE AuthHeadersFrom(_, _, _)
AuthHeadersFrom(credentials, i, headers) ==
    IF i > Len(credentials_format) THEN headers
    ELSE LET m == credentials_format[i] IN
         IF m.name \in DOMAIN credentials /\ m.header # None
         THEN AuthHeadersFrom(credentials, i + 1,
                  Put(headers, m.header,
                      PrefixedValue(m, credentials[m.name])))
         ELSE AuthHeadersFrom(credentials, i + 1, headers)

to_auth_headers(c) == AuthHeadersFrom(c.credentials, 1, EmptyDict)

-----------------------------------------------------------------------------
(* The gateway: what one GET {gateway_url}{gateway_endpoint} can produce *)

CredsV1 == [api_key |-> "k1", token |-> "t1", bearer |-> "b1"]

CredsV2 == [api_key |-> "k2", token |-> "t2", bearer |-> "b2"]

CredsPartial == [api_key |-> "k1"]

\* A response body: json is what response.json() yields ("invalid" when it
\* raises), has_data whether the object has a "data" key, data the type of
\* that value, creds the credential object when there is one.
Body(json, has_data, data, creds) ==
    [json |-> json, has_data |-> has_data, data |-> data, creds |-> creds]

NoBody == Body("invalid", FALSE, "none", EmptyDict)

SuccessBodies ==
    { Body("dict", TRUE, "dict", CredsV1),      \* {"data": {...}}
      Body("dict", FALSE, "none", CredsV2),     \* bare {...}
      Body("dict", TRUE, "dict", CredsPartial), \* a declared name is missing
      Body("dict", TRUE, "str", EmptyDict),     \* {"data": "text"}
      Body("list", FALSE, "none", EmptyDict),   \* [...]
      NoBody }                                  \* not JSON

FailureStatuses == {400, 401, 403, 404, 500, 503}

Response(kind, status, body) == [kind |-> kind, status |-> status, body |-> body]

GatewayResponses ==
    { Response("response", 200, b) : b \in SuccessBodies }
    \cup { Response("response", s, NoBody) : s \in FailureStatuses }
    \cup { Response(k, 0, NoBody) : k \in {"ConnectError", "TimeoutException", "ReadError"} }

-----------------------------------------------------------------------------
(* Results of calls *)

NoRes == [kind |-> "none"]

\* the value of a call that returns None
NoValue == [none |-> TRUE]

Returned(val, via) == [kind |-> "return", val |-> val, via |-> via]

Raised(exc, status_code, message) ==
    [kind |-> "raise", exc |-> exc, status_code |-> status_code, message |-> message]

\* AuthGatewayError(message, status_code); status_code 0 stands for None
AuthGatewayError(message, status_code) == Raised("AuthGatewayError", status_code, message)

IsGatewayError(res) == res.kind = "raise" /\ res.exc = "AuthGatewayError"

-----------------------------------------------------------------------------
(* AuthGatewayService._fetch_from_gateway, from the response on *)

_fetch_from_gateway(resp) ==
    IF resp.kind = "ConnectError" THEN AuthGatewayError("connect", 0)
    ELSE IF resp.kind = "TimeoutException" THEN AuthGatewayError("timeout", 0)
    ELSE IF resp.kind # "response" THEN Raised(resp.kind, 0, "transport")
    ELSE IF resp.status = 401 THEN AuthGatewayError("jwt_invalid", 401)
    ELSE IF resp.status = 403 THEN AuthGatewayError("forbidden", 403)
    ELSE IF resp.status = 404 THEN AuthGatewayError("not_configured", 404)
    ELSE IF resp.status >= 500 THEN AuthGatewayError("unavailable", resp.status)
    ELSE IF ~(resp.status >= 200 /\ resp.status < 300)
         THEN AuthGatewayError("http_error", resp.status)
    ELSE IF resp.body.json = "invalid" THEN Raised("JSONDecodeError", 0, "json")
    ELSE IF resp.body.json # "dict" THEN Raised("AttributeError", 0, "get")
    ELSE IF resp.body.has_data /\ resp.body.data # "dict"
         THEN AuthGatewayError("bad_format", 0)
    ELSE IF \E n \in ExpectedCreds : n \notin DOMAIN resp.body.creds
         THEN AuthGatewayError("missing_creds", 0)
    ELSE Returned(APICredentials(resp.body.creds, now, cache_ttl_seconds), "fetch")

-----------------------------------------------------------------------------
(* AuthGatewayService: the synchronous members *)

is_authenticated_no_expiry == current_jwt # None /\ current_jwt \in DOMAIN cache

is_authenticated ==
    IF current_jwt = None THEN FALSE
    ELSE current_jwt \in DOMAIN cache /\ ~is_expired(cache[current_jwt])

\* None when there is no active, cached, non-expired APICredentials
HasCurrentCredentials ==
    /\ current_jwt # None
    /\ current_jwt \in DOMAIN cache
    /\ ~is_expired(cache[current_jwt])

current_credentials_other ==
    cache[CHOOSE t \in DOMAIN cache : t # current_jwt \/ DOMAIN cache = {current_jwt}]

current_credentials == cache[current_jwt]

NotAuthenticatedError == AuthGatewayError("no_credentials", 0)

get_auth_params ==
    IF ~HasCurrentCredentials THEN NotAuthenticatedError
    ELSE Returned(to_auth_params(current_credentials), "sync")

get_auth_headers ==
    IF ~HasCurrentCredentials THEN NotAuthenticatedError
    ELSE Returned(to_auth_headers(current_credentials), "sync")

clear_cache_keeps_pointer(jwt) ==
    IF jwt # None
    THEN [cache |-> Drop(cache, jwt), current_jwt |-> current_jwt]
    ELSE [cache |-> EmptyDict, current_jwt |-> None]

clear_cache_always_resets(jwt) ==
    IF jwt # None
    THEN [cache |-> Drop(cache, jwt), current_jwt |-> None]
    ELSE [cache |-> EmptyDict, current_jwt |-> None]

\* clear_cache(jwt): the store after the call, as [cache, current_jwt]
clear_cache(jwt) ==
    IF jwt # None
    THEN [cache |-> Drop(cache, jwt),
          current_jwt |-> IF current_jwt = jwt THEN None ELSE current_jwt]
    ELSE [cache |-> EmptyDict, current_jwt |-> None]

service_logout_keeps_entry ==
    [cache |-> cache, current_jwt |-> None]

service_logout ==
    IF current_jwt # None THEN clear_cache(current_jwt)
    ELSE [cache |-> cache, current_jwt |-> current_jwt]

\* server.get_auth_status: the authenticated flag and credentials_expire_at
get_auth_status ==
    IF HasCurrentCredentials /\ ~is_expired(current_credentials)
    THEN [authenticated |-> TRUE,
          credentials_expire_at |-> expires_at(current_credentials)]
    ELSE [authenticated |-> FALSE]

-----------------------------------------------------------------------------
(* Tasks.  A task inside authenticate is "fetching" while the GET is       *)
(* awaited and "closing" while the AsyncClient context exits, the outcome  *)
(* of _fetch_from_gateway pending in res.  ret holds the outcome of the    *)
(* call that has just completed; its caller takes it in the next step.     *)

IdleTask == [pc |-> "idle", jwt |-> None, res |-> NoRes]

TaskAt(pc, jwt, res) == [pc |-> pc, jwt |-> jwt, res |-> res]

NoRet == [op |-> "none", by |-> None, jwt |-> None, res |-> NoRes]

Ret(op, by, jwt, res) == [op |-> op, by |-> by, jwt |-> jwt, res |-> res]

CacheHitWhileCached(jwt) == jwt \in DOMAIN cache

\* line 169: cached and not cached.is_expired
CacheHit(jwt) == jwt \in DOMAIN cache /\ ~is_expired(cache[jwt])

AuthenticateCallRenewing(c, jwt) ==
    /\ ret = NoRet
    /\ task[c].pc = "idle"
    /\ IF CacheHit(jwt)
       THEN /\ current_jwt' = jwt
            /\ cache' = [cache EXCEPT ![jwt].fetched_at = now]
            /\ ret' = Ret("authenticate", c, jwt, Returned(cache'[jwt], "cache"))
            /\ UNCHANGED <<task, fetches>>
       ELSE /\ fetches < MaxFetches
            /\ fetches' = fetches + 1
            /\ task' = [task EXCEPT ![c] = TaskAt("fetching", jwt, NoRes)]
            /\ UNCHANGED <<cache, current_jwt, ret>>
    /\ UNCHANGED <<cache_ttl_seconds, now>>
    /\ UNCHANGED nonAuthVars

\* authenticate(jwt), lines 167-176: the cache check, then either the hit
\* or the start of the fetch
AuthenticateCall(c, jwt) ==
    /\ ret = NoRet
    /\ task[c].pc = "idle"
    /\ IF CacheHit(jwt)
       THEN /\ current_jwt' = jwt
            /\ ret' = Ret("authenticate", c, jwt, Returned(cache[jwt], "cache"))
            /\ UNCHANGED <<task, fetches>>
       ELSE /\ fetches < MaxFetches
            /\ fetches' = fetches + 1
            /\ task' = [task EXCEPT ![c] = TaskAt("fetching", jwt, NoRes)]
            /\ UNCHANGED <<current_jwt, ret>>
    /\ UNCHANGED <<cache, cache_ttl_seconds, now>>
    /\ UNCHANGED nonAuthVars

\* the awaited client.get completes with a response _fetch_from_gateway
\* accepts: the APICredentials are built (fetched_at = utcnow()), and the
\* AsyncClient context is left before authenticate goes on
FetchReturns(c, resp) ==
    /\ ret = NoRet
    /\ task[c].pc = "fetching"
    /\ _fetch_from_gateway(resp).kind = "return"
    /\ task' = [task EXCEPT ![c].pc = "closing", ![c].res = _fetch_from_gateway(resp)]
    /\ UNCHANGED <<cache, current_jwt, cache_ttl_seconds, now, fetches, ret>>
    /\ UNCHANGED nonAuthVars

\* the awaited client.get fails, or _fetch_from_gateway rejects the
\* response: the exception leaves authenticate at line 176
FetchRaises(c, resp) ==
    /\ ret = NoRet
    /\ task[c].pc = "fetching"
    /\ _fetch_from_gateway(resp).kind = "raise"
    /\ ret' = Ret("authenticate", c, task[c].jwt, _fetch_from_gateway(resp))
    /\ task' = [task EXCEPT ![c] = IdleTask]
    /\ UNCHANGED <<cache, current_jwt, cache_ttl_seconds, now, fetches>>
    /\ UNCHANGED nonAuthVars

\* authenticate(jwt), lines 178-188: the fetch has returned
AuthenticateResume(c) ==
    /\ ret = NoRet
    /\ task[c].pc = "closing"
    /\ cache' = Put(cache, task[c].jwt, task[c].res.val)
    /\ current_jwt' = task[c].jwt
    /\ ret' = Ret("authenticate", c, task[c].jwt, task[c].res)
    /\ task' = [task EXCEPT ![c] = IdleTask]
    /\ UNCHANGED <<cache_ttl_seconds, now, fetches>>
    /\ UNCHANGED nonAuthVars

\* the caller takes the outcome of its call
TakeResult ==
    /\ ret # NoRet
    /\ ret' = NoRet
    /\ UNCHANGED <<cache, current_jwt, cache_ttl_seconds, now, task, fetches>>
    /\ UNCHANGED nonAuthVars

Query(op, res) ==
    /\ ret = NoRet
    /\ ret' = Ret(op, None, None, res)
    /\ UNCHANGED <<cache, current_jwt, cache_ttl_seconds, now, task, fetches>>
    /\ UNCHANGED nonAuthVars

IsAuthenticated ==
    Query("is_authenticated", Returned([flag |-> is_authenticated], "sync"))

GetAuthParams == Query("get_auth_params", get_auth_params)

GetAuthHeaders == Query("get_auth_headers", get_auth_headers)

GetAuthStatus == Query("get_auth_status", Returned(get_auth_status, "sync"))

ClearCache(jwt) ==
    /\ ret = NoRet
    /\ cache' = clear_cache(jwt).cache
    /\ current_jwt' = clear_cache(jwt).current_jwt
    /\ ret' = Ret("clear_cache", None, jwt, Returned(NoValue, "sync"))
    /\ UNCHANGED <<cache_ttl_seconds, now, task, fetches>>
    /\ UNCHANGED nonAuthVars

\* server.logout: was_authenticated, then AuthGatewayService.logout
Logout ==
    /\ ret = NoRet
    /\ cache' = service_logout.cache
    /\ current_jwt' = service_logout.current_jwt
    /\ ret' = Ret("logout", None, current_jwt,
                  Returned([was_authenticated |-> is_authenticated], "sync"))
    /\ UNCHANGED <<cache_ttl_seconds, now, task, fetches>>
    /\ UNCHANGED nonAuthVars

Tick ==
    /\ ret = NoRet
    /\ now < MaxTime
    /\ now' = now + 1
    /\ UNCHANGED <<cache, current_jwt, cache_ttl_seconds, task, fetches, ret>>
    /\ UNCHANGED nonAuthVars

AuthInitial ==
    /\ cache = EmptyDict
    /\ current_jwt = None
    /\ cache_ttl_seconds \in 0..MaxTtl
    /\ now = 0
    /\ task = [c \in Tasks |-> IdleTask]
    /\ fetches = 0
    /\ ret = NoRet

AuthNext ==
    \/ \E c \in Tasks, jwt \in Tokens : AuthenticateCall(c, jwt)
    \/ \E c \in Tasks, resp \in GatewayResponses : FetchReturns(c, resp)
    \/ \E c \in Tasks, resp \in GatewayResponses : FetchRaises(c, resp)
    \/ \E c \in Tasks : AuthenticateResume(c)
    \/ TakeResult
    \/ IsAuthenticated
    \/ GetAuthParams
    \/ GetAuthHeaders
    \/ GetAuthStatus
    \/ \E jwt \in Tokens \cup {None} : ClearCache(jwt)
    \/ Logout
    \/ Tick

\* The store just after logout has ended the session of jwtB while an
\* authenticate(jwtA) that started before it awaits its fetch
LoggedOutInFlightInitial ==
    /\ cache = EmptyDict
    /\ current_jwt = None
    /\ cache_ttl_seconds \in 0..MaxTtl
    /\ now = 0
    /\ task = [c \in Tasks |-> IF c = "task1" THEN TaskAt("fetching", "jwtA", NoRes)
                                ELSE IdleTask]
    /\ fetches = 2
    /\ ret = Ret("logout", None, "jwtB",
                 Returned([was_authenticated |-> TRUE], "sync"))

\* what can happen as long as no further authenticate call starts
LoggedOutInFlightNext ==
    \/ \E c \in Tasks, resp \in GatewayResponses : FetchReturns(c, resp)
    \/ \E c \in Tasks, resp \in GatewayResponses : FetchRaises(c, resp)
    \/ \E c \in Tasks : AuthenticateResume(c)
    \/ TakeResult
    \/ IsAuthenticated
    \/ GetAuthParams
    \/ GetAuthHeaders
    \/ GetAuthStatus
    \/ \E jwt \in Tokens \cup {None} : ClearCache(jwt)
    \/ Logout
    \/ Tick

-----------------------------------------------------------------------------
(* with_retry (server.py).  func is the wrapped coroutine function: each   *)
(* call of it makes one request and returns the response or raises.        *)

RETRYABLE_STATUS_CODES_NO_429 == {500, 502, 503, 504}

RETRYABLE_STATUS_CODES == {429, 500, 502, 503, 504}

\* the statuses func raises HTTPStatusError with (raise_for_status), in the
\* retryable set and outside it
ErrorStatuses == {400, 404, 429, 500, 501, 502, 503, 504}

\* An outcome of one call of func: type "ok" for a returned response, else
\* the type of the exception raised; attempt tells the calls apart.
Outcome(type, status, n) == [type |-> type, status |-> status, attempt |-> n]

NoException == Outcome("None", 0, -1)

\* what one call of func can do: return a response, or raise
FuncOutcomes ==
    {[type |-> "ok", status |-> 200]}
    \cup {[type |-> "HTTPStatusError", status |-> st] :
              st \in ErrorStatuses}
    \cup {[type |-> t, status |-> 0] : t \in {"ConnectError", "TimeoutException",
                                               "AuthGatewayError", "RuntimeError"}}

HasNextAttemptInclusive(n) == n <= max_attempts

\* for attempt in range(max_attempts)
HasNextAttempt(n) == n < max_attempts

\* 2 ** n
RECURSIVE Pow2(_)
Pow2(n) == IF n <= 0 THEN 1 ELSE 2 * Pow2(n - 1)

delay_uncapped(n) == base_delay * Pow2(n)

\* delay = min(base_delay * (2 ** attempt), max_delay), in seconds
delay(n) ==
    IF base_delay * Pow2(n) < max_delay THEN base_delay * Pow2(n) ELSE max_delay

\* jitter = random.uniform(0, delay * 0.1), in tenths of a second: a real
\* between 0 and d tenths, of which the ends and the middle are drawn
Jitters(d) == {0, d \div 2, d}

\* total_delay = delay + jitter, delay in seconds and jitter in tenths
TotalDelay(d, jitter) == [delay |-> d, jitter |-> jitter]

NoDelay == TotalDelay(0, 0)

KeepFirstException(exc) == IF last_exception = NoException THEN exc ELSE last_exception

\* last_exception = exc
RecordException(exc) == exc

AfterRetryableFailureAlwaysSleeps ==
    /\ \E jitter \in Jitters(delay(attempt)) :
           total_delay' = TotalDelay(delay(attempt), jitter)
    /\ retry_pc' = "sleeping"
    /\ slept' = slept \cup {attempt}
    /\ UNCHANGED attempt

\* the end of a handler that does not raise: the delay is computed; sleep
\* unless this was the final attempt, then go round the loop
AfterRetryableFailure ==
    /\ \E jitter \in Jitters(delay(attempt)) :
           total_delay' = TotalDelay(delay(attempt), jitter)
    /\ IF attempt < max_attempts - 1
       THEN /\ retry_pc' = "sleeping"
            /\ slept' = slept \cup {attempt}
            /\ UNCHANGED attempt
       ELSE /\ retry_pc' = "loop"
            /\ attempt' = attempt + 1
            /\ UNCHANGED slept

\* one pass of the loop body: await func(), lines 168-204
CallFunc(k) ==
    LET o == Outcome(k.type, k.status, attempt) IN
    /\ retry_pc = "loop"
    /\ HasNextAttempt(attempt)
    /\ func_calls' = Append(func_calls, o)
    /\ IF o.type = "ok"
       THEN /\ retry_pc' = "returned"
            /\ retry_result' = o
            /\ UNCHANGED <<attempt, last_exception, slept, total_delay>>
       ELSE IF o.type = "HTTPStatusError"
       THEN /\ last_exception' = RecordException(o)
            /\ IF o.status \notin RETRYABLE_STATUS_CODES
               THEN /\ retry_pc' = "raised"
                    /\ retry_result' = o
                    /\ UNCHANGED <<attempt, slept, total_delay>>
               ELSE /\ AfterRetryableFailure
                    /\ UNCHANGED retry_result
       ELSE IF o.type \in {"ConnectError", "TimeoutException"}
       THEN /\ last_exception' = RecordException(o)
            /\ AfterRetryableFailure
            /\ UNCHANGED retry_result
       ELSE /\ retry_pc' = "raised"
            /\ retry_result' = o
            /\ UNCHANGED <<attempt, last_exception, slept, total_delay>>
    /\ UNCHANGED <<max_attempts, base_delay, max_delay>>
    /\ UNCHANGED nonRetryVars

\* asyncio.sleep(total_delay) returns, lines 190 and 204
SleepDone ==
    /\ retry_pc = "sleeping"
    /\ retry_pc' = "loop"
    /\ attempt' = attempt + 1
    /\ UNCHANGED <<max_attempts, last_exception, func_calls, slept, retry_result,
                   base_delay, max_delay, total_delay>>
    /\ UNCHANGED nonRetryVars

\* the loop is over, lines 206-208
Exhausted ==
    /\ retry_pc = "loop"
    /\ ~HasNextAttempt(attempt)
    /\ retry_pc' = "raised"
    /\ retry_result' = IF last_exception # NoException THEN last_exception
                       ELSE Outcome("RuntimeError", 0, -1)
    /\ UNCHANGED <<max_attempts, attempt, last_exception, func_calls, slept,
                   base_delay, max_delay, total_delay>>
    /\ UNCHANGED nonRetryVars

\* with_retry has been entered, lines 165-167
RetryStart ==
    /\ retry_pc = "loop"
    /\ attempt = 0
    /\ last_exception = NoException
    /\ func_calls = <<>>
    /\ slept = {}
    /\ retry_result = NoException
    /\ total_delay = NoDelay

RetryInitial ==
    /\ max_attempts \in (-1)..MaxAttempts
    /\ base_delay = RETRY_BASE_DELAY
    /\ max_delay = RETRY_MAX_DELAY
    /\ RetryStart

RetryNext ==
    \/ \E k \in FuncOutcomes : CallFunc(k)
    \/ SleepDone
    \/ Exhausted

\* with_retry called with other delays and up to MaxBackoffAttempts
\* attempts, around a call that returns, fails for good, or fails with a
\* retryable status or a connection failure
MaxBackoffAttempts == 4

DelayConfigs == {<<RETRY_BASE_DELAY, RETRY_MAX_DELAY>>, <<1, 3>>, <<5, 8>>}

BackoffOutcomes ==
    {[type |-> "ok", status |-> 200],
     [type |-> "HTTPStatusError", status |-> 404],
     [type |-> "HTTPStatusError", status |-> 503],
     [type |-> "ConnectError", status |-> 0]}

BackoffInitial ==
    /\ max_attempts \in 1..MaxBackoffAttempts
    /\ \E delays \in DelayConfigs : base_delay = delays[1] /\ max_delay = delays[2]
    /\ RetryStart

BackoffNext ==
    \/ \E k \in BackoffOutcomes : CallFunc(k)
    \/ SleepDone
    \/ Exhausted

-----------------------------------------------------------------------------
(* Names.  A name is a sequence of one-character strings, so that the      *)
(* sanitizer and the pattern search work on characters as the code does.   *)

LowerLetters ==
    <<"a", "b", "c", "d", "e", "f", "g", "h", "i", "j", "k", "l", "m",
      "n", "o", "p", "q", "r", "s", "t", "u", "v", "w", "x", "y", "z">>

UpperLetters ==
    <<"A", "B", "C", "D", "E", "F", "G", "H", "I", "J", "K", "L", "M",
      "N", "O", "P", "Q", "R", "S", "T", "U", "V", "W", "X", "Y", "Z">>

Digits == <<"0", "1", "2", "3", "4", "5", "6", "7", "8", "9">>

Range(seq) == {seq[i] : i \in 1..Len(seq)}

\* Two characters beyond ASCII, each written as one element of a name:
\* LATIN CAPITAL LETTER I WITH DOT ABOVE, a letter whose lower-case form is
\* "i" followed by COMBINING DOT ABOVE, a mark
CapitalIWithDot == "U+0130"

CombiningDot == "U+0307"

\* str.isalnum: the ASCII letters and digits, and the letter U+0130
isalnum(ch) ==
    ch \in Range(LowerLetters) \cup Range(UpperLetters) \cup Range(Digits)
            \cup {CapitalIWithDot}

\* ch.lower() for a character whose lower-case form is one character
lower(ch) ==
    IF ch \in Range(UpperLetters)
    THEN LowerLetters[CHOOSE i \in 1..Len(UpperLetters) : UpperLetters[i] = ch]
    ELSE ch

\* ch.lower(), as a string
lower_str(ch) ==
    IF ch = CapitalIWithDot THEN <<"i", CombiningDot>> ELSE <<lower(ch)>>

\* "".join(parts)
RECURSIVE Join(_)
Join(parts) == IF parts = <<>> THEN <<>> ELSE Head(parts) \o Join(Tail(parts))

\* name.lower(); character by character where every character keeps its
\* length
LowerAll(name) ==
    IF \A i \in 1..Len(name) : name[i] # CapitalIWithDot
    THEN [i \in 1..Len(name) |-> lower(name[i])]
    ELSE Join([i \in 1..Len(name) |-> lower_str(name[i])])

\* the string of n copies of ch
Rep(ch, n) == [i \in 1..n |-> ch]

Min(a, b) == IF a < b THEN a ELSE b

Max(a, b) == IF a > b THEN a ELSE b

\* s[:n], with Python's meaning of a negative n
SliceTo(s, n) ==
    IF n >= 0 THEN SubSeq(s, 1, Min(n, Len(s)))
    ELSE SubSeq(s, 1, Max(0, Len(s) + n))

\* s.rstrip("_")
RECURSIVE rstrip_underscore(_)
rstrip_underscore(s) ==
    IF s # <<>> /\ s[Len(s)] = "_" THEN rstrip_underscore(SubSeq(s, 1, Len(s) - 1))
    ELSE s

\* lines 53-59: alphanumerics lowered, every other character an underscore
Joined(name) ==
    IF \A i \in 1..Len(name) : name[i] # CapitalIWithDot
    THEN [i \in 1..Len(name) |-> IF isalnum(name[i]) THEN lower(name[i]) ELSE "_"]
    ELSE Join([i \in 1..Len(name) |->
                  IF isalnum(name[i]) THEN lower_str(name[i]) ELSE <<"_">>])

\* "_".join(filter(None, joined.split("_"))): each run of underscores
\* becomes one underscore, and the runs at either end go.  Position i of
\* joined stays when it holds no underscore, or when it is the first
\* underscore of a run that has text on both sides.
KeptByJoin(joined, i) ==
    \/ joined[i] # "_"
    \/ /\ i > 1
       /\ joined[i - 1] # "_"
       /\ \E j \in (i + 1)..Len(joined) : joined[j] # "_"

CollapseUnderscores(joined) ==
    LET positions == SelectSeq([i \in 1..Len(joined) |-> i],
                               LAMBDA i : KeptByJoin(joined, i))
    IN  [k \in 1..Len(positions) |-> joined[positions[k]]]

_sanitize_name(name, max_length) ==
    LET collapsed == CollapseUnderscores(Joined(name))
        clean == IF collapsed = <<>> THEN <<"o", "p">> ELSE collapsed
    IN  IF Len(clean) > max_length
        THEN rstrip_underscore(SliceTo(clean, max_length))
        ELSE clean

\* the characters of the seeds: letters of either case, a digit, the
\* separator, a character that is no letter, and the letter U+0130
SeedChars == {"a", "B", "1", "_", "-", CapitalIWithDot}

Seeds == UNION {[1..n -> SeedChars] : n \in 0..MaxSeedLen}

\* no call of _sanitize_name has been made
NoSanitizeCall == [called |-> FALSE]

SanitizeCall(name, max_length, result) ==
    [called |-> TRUE, name |-> name, max_length |-> max_length, result |-> result]

\* one call _sanitize_name(name, max_length)
SanitizeName(name, max_length) ==
    /\ sanitize_call = NoSanitizeCall
    /\ sanitize_call' = SanitizeCall(name, max_length, _sanitize_name(name, max_length))
    /\ UNCHANGED nonNameVars

SanitizeNext ==
    \E name \in Seeds, max_length \in 1..MaxNameLen : SanitizeName(name, max_length)

-----------------------------------------------------------------------------
(* API descriptions (the "paths" object of an OpenAPI document)            *)

\* one entry of a "parameters" list
Param(name, location, required) ==
    [name |-> name, in |-> location, required |-> required]

\* a verb entry whose value is a JSON object; operationId <<>> stands for
\* an absent or empty operationId, requestBody says whether the key is there
Op(operationId, parameters, requestBody) ==
    [is_dict |-> TRUE, operationId |-> operationId, parameters |-> parameters,
     requestBody |-> requestBody]

\* a key of a path item whose value is not a JSON object
NotADict == [is_dict |-> FALSE]

Item(method, op) == [method |-> method, op |-> op]

PathItem(path, parameters, items) ==
    [path |-> path, parameters |-> parameters, items |-> items]

\* tests/conftest.py: "/items"
ItemsPath ==
    PathItem(<<"/", "i", "t", "e", "m", "s">>, <<>>,
        <<Item(<<"g", "e", "t">>, Op(<<"g", "e", "t", "I", "t", "e", "m", "s">>, <<>>, FALSE)),
          Item(<<"p", "o", "s", "t">>, Op(<<"c", "r", "e", "a", "t", "e", "I", "t", "e", "m">>, <<>>, TRUE))>>)

\* tests/conftest.py: "/items/{id}", the id declared at path level
ItemPath ==
    PathItem(<<"/", "i", "t", "e", "m", "s", "/", "{", "i", "d", "}">>, <<Param("id", "path", TRUE)>>,
        <<Item(<<"g", "e", "t">>, Op(<<"g", "e", "t", "I", "t", "e", "m">>, <<>>, FALSE)),
          Item(<<"d", "e", "l", "e", "t", "e">>, Op(<<"d", "e", "l", "e", "t", "e", "I", "t", "e", "m">>, <<>>, FALSE))>>)

\* "/items/{id}" with its GET alone
GetItemPath ==
    PathItem(<<"/", "i", "t", "e", "m", "s", "/", "{", "i", "d", "}">>, <<Param("id", "path", TRUE)>>,
        <<Item(<<"g", "e", "t">>, Op(<<"g", "e", "t", "I", "t", "e", "m">>, <<>>, FALSE))>>)

\* an operation with a path parameter, a required and an optional query
\* parameter, the optional one with the name of an auth query parameter;
\* and an operation with a request body whose required query parameter has
\* the name of an auth query parameter
SearchPath ==
    PathItem(<<"/", "i", "t", "e", "m", "s", "/", "{", "i", "d", "}", "/", "s", "e", "a", "r", "c", "h">>, <<Param("id", "path", TRUE)>>,
        <<Item(<<"g", "e", "t">>, Op(<<"s", "e", "a", "r", "c", "h", "I", "t", "e", "m">>,
                         <<Param("q", "query", TRUE), Param("key", "query", FALSE)>>,
                         FALSE)),
          Item(<<"p", "o", "s", "t">>, Op(<<"f", "i", "l", "t", "e", "r", "I", "t", "e", "m">>,
                          <<Param("key", "query", TRUE)>>,
                          TRUE))>>)

\* the irregular keys: an extension key, a verb whose value is no object, an
\* upper-case verb without operationId that redeclares a path-level
\* parameter, and an operationId that sanitizes to the name of getItems
OddPath ==
    PathItem(<<"/", "o", "d", "d">>, <<Param("limit", "query", TRUE)>>,
        <<Item(<<"x", "-", "i", "n", "t", "e", "r", "n", "a", "l">>, Op(<<"i", "n", "t", "e", "r", "n", "a", "l">>, <<>>, FALSE)),
          Item(<<"g", "e", "t">>, NotADict),
          Item(<<"D", "E", "L", "E", "T", "E">>, Op(<<>>, <<Param("limit", "query", FALSE)>>, FALSE)),
          Item(<<"p", "u", "t">>, Op(<<"G", "e", "t", "I", "t", "e", "m", "s">>, <<>>, TRUE))>>)

\* two operationIds longer than the name limit that agree on their first
\* 59 characters, the 60th being a separator
LongPath ==
    PathItem(<<"/", "l", "o", "n", "g">>, <<>>,
        <<Item(<<"g", "e", "t">>, Op(Rep("a", 59) \o <<"_">> \o Rep("b", 10), <<>>, FALSE)),
          Item(<<"p", "o", "s", "t">>, Op(Rep("a", 59) \o <<"_">> \o Rep("c", 10), <<>>, FALSE))>>)

PathItems == {ItemsPath, ItemPath, GetItemPath, SearchPath, OddPath, LongPath}

\* the descriptions: up to MaxPaths distinct path items, in document order
Descriptions ==
    {paths \in UNION {[1..n -> PathItems] : n \in 0..MaxPaths} :
        \A i, j \in DOMAIN paths : i # j => paths[i].path # paths[j].path}

\* the configured prefixes: the default one, and long ones around the limit
Prefixes == {<<"a", "p", "i">>} \cup {Rep("p", n) : n \in (MaxPrefixLen - 2)..MaxPrefixLen}

-----------------------------------------------------------------------------
(* Tool policies, tool_policies.py *)

\* re.search(pattern, tool_name, re.IGNORECASE) for a pattern of literal
\* characters: a case-insensitive substring search
Search(pattern, tool_name) ==
    \E i \in 1..(Len(tool_name) - Len(pattern) + 1) :
        LowerAll(SubSeq(tool_name, i, i + Len(pattern) - 1)) = LowerAll(pattern)

_matches_pattern(tool_name, patterns) ==
    \E i \in 1..Len(patterns) : Search(patterns[i], tool_name)

\* config.policies and the two environment flags; audit_all and
\* DISABLE_OPERATION_LOGGING at their defaults (config.py:77, line 63)
PolicyConfig(blocked_patterns, require_confirmation, enable_critical_tools) ==
    [blocked_patterns |-> blocked_patterns,
     require_confirmation |-> require_confirmation,
     ENABLE_CRITICAL_TOOLS |-> enable_critical_tools,
     audit_all |-> FALSE,
     DISABLE_OPERATION_LOGGING |-> FALSE]

\* the same with policies.audit_all and DISABLE_OPERATION_LOGGING set
LoggingConfig(config, audit_all, disable_operation_logging) ==
    [config EXCEPT !.audit_all = audit_all,
                   !.DISABLE_OPERATION_LOGGING = disable_operation_logging]

\* the pattern lists a service.yaml may configure
PatternLists == {<<>>, <<<<"d", "e", "l", "e", "t", "e">>>>, <<<<"i", "t", "e", "m">>>>, <<<<"G", "E", "T">>, <<"d", "e", "l", "e", "t", "e">>>>}

PolicyConfigs ==
    {LoggingConfig(PolicyConfig(blocked, confirm, flag), audit, disabled) :
        blocked \in PatternLists, confirm \in PatternLists, flag \in BOOLEAN,
        audit \in BOOLEAN, disabled \in BOOLEAN}

\* the configurations the generated tools are called under
ToolPolicyConfigs ==
    {PolicyConfig(<<>>, <<>>, FALSE),
     PolicyConfig(<<<<"d", "e", "l", "e", "t", "e">>>>, <<>>, FALSE),
     PolicyConfig(<<<<"d", "e", "l", "e", "t", "e">>>>, <<>>, TRUE)}

is_tool_blocked(tool_name) ==
    IF policy_config.ENABLE_CRITICAL_TOOLS THEN FALSE
    ELSE _matches_pattern(tool_name, policy_config.blocked_patterns)

\* tool_lower.startswith(prefix)
startswith(name, prefix) ==
    Len(name) >= Len(prefix) /\ SubSeq(name, 1, Len(prefix)) = prefix

\* sub in tool_lower
Contains(name, sub) ==
    \E i \in 1..(Len(name) - Len(sub) + 1) : SubSeq(name, i, i + Len(sub) - 1) = sub

\* a tuple (RiskLevel, ToolAction)
Policy(risk, action) == [risk |-> risk, action |-> action]

get_tool_policy_delete_first(tool_name) ==
    IF _matches_pattern(tool_name, policy_config.blocked_patterns)
    THEN Policy("CRITICAL", "BLOCK")
    ELSE IF _matches_pattern(tool_name, policy_config.require_confirmation)
    THEN Policy("HIGH", "REQUIRE_CONFIRMATION")
    ELSE LET tool_lower == LowerAll(tool_name) IN
         IF Contains(tool_lower, <<"_", "d", "e", "l", "e", "t", "e", "_">>) \/ startswith(tool_lower, <<"d", "e", "l", "e", "t", "e", "_">>)
         THEN Policy("MEDIUM", "ALLOW_WITH_LOGGING")
         ELSE IF Contains(tool_lower, <<"_", "g", "e", "t", "_">>) \/ startswith(tool_lower, <<"g", "e", "t", "_">>)
         THEN Policy("LOW", "ALLOW")
         ELSE Policy("LOW", "ALLOW_WITH_LOGGING")

get_tool_policy(tool_name) ==
    IF _matches_pattern(tool_name, policy_config.blocked_patterns)
    THEN Policy("CRITICAL", "BLOCK")
    ELSE IF _matches_pattern(tool_name, policy_config.require_confirmation)
    THEN Policy("HIGH", "REQUIRE_CONFIRMATION")
    ELSE LET tool_lower == LowerAll(tool_name) IN
         IF Contains(tool_lower, <<"_", "g", "e", "t", "_">>) \/ startswith(tool_lower, <<"g", "e", "t", "_">>)
         THEN Policy("LOW", "ALLOW")
         ELSE IF Contains(tool_lower, <<"_", "d", "e", "l", "e", "t", "e", "_">>) \/ startswith(tool_lower, <<"d", "e", "l", "e", "t", "e", "_">>)
         THEN Policy("MEDIUM", "ALLOW_WITH_LOGGING")
         ELSE Policy("LOW", "ALLOW_WITH_LOGGING")

\* the names the policies are asked about
PolicyNames ==
    {<<"d", "e", "l", "e", "t", "e", "_", "i", "t", "e", "m">>, <<"g", "e", "t", "_", "i", "t", "e", "m">>, <<"g", "e", "t", "_", "d", "e", "l", "e", "t", "e", "_", "i", "t", "e", "m">>, <<"a", "p", "i", "_", "d", "e", "l", "e", "t", "e", "_", "i", "t", "e", "m">>,
     <<"a", "p", "i", "_", "g", "e", "t", "_", "i", "t", "e", "m">>, <<"a", "p", "i", "_", "g", "e", "t", "_", "d", "e", "l", "e", "t", "e", "_", "x">>, <<"c", "r", "e", "a", "t", "e", "_", "i", "t", "e", "m">>, <<"a", "p", "i", "_", "d", "e", "l", "e", "t", "e", "i", "t", "e", "m">>,
     <<"D", "e", "l", "e", "t", "e", "_", "I", "t", "e", "m">>, <<"f", "o", "r", "g", "e", "t", "_", "i", "t", "e", "m">>, <<"u", "n", "d", "e", "l", "e", "t", "e", "_", "i", "t", "e", "m">>, <<"l", "i", "s", "t", "_", "u", "s", "e", "r", "s">>}

NoPolicyQuery == [op |-> "none"]

PolicyQuery(op, tool_name, result) ==
    [op |-> op, tool_name |-> tool_name, result |-> result]

IsToolBlocked(tool_name) ==
    /\ policy_query' =
           PolicyQuery("is_tool_blocked", tool_name, [flag |-> is_tool_blocked(tool_name)])
    /\ UNCHANGED nonPolicyVars

GetToolPolicy(tool_name) ==
    /\ policy_query' = PolicyQuery("get_tool_policy", tool_name, get_tool_policy(tool_name))
    /\ UNCHANGED nonPolicyVars

should_log_operation_audit_first(tool_name) ==
    IF policy_config.audit_all THEN TRUE
    ELSE IF policy_config.DISABLE_OPERATION_LOGGING THEN FALSE
    ELSE get_tool_policy(tool_name).action \in {"ALLOW_WITH_LOGGING", "REQUIRE_CONFIRMATION"}

\* lines 159-170
should_log_operation(tool_name) ==
    IF policy_config.DISABLE_OPERATION_LOGGING THEN FALSE
    ELSE IF policy_config.audit_all THEN TRUE
    ELSE get_tool_policy(tool_name).action \in {"ALLOW_WITH_LOGGING", "REQUIRE_CONFIRMATION"}

ShouldLogOperation(tool_name) ==
    /\ policy_query' =
           PolicyQuery("should_log_operation", tool_name,
                       [flag |-> should_log_operation(tool_name)])
    /\ UNCHANGED nonPolicyVars

\* A parameter value: a str with its first MAX_VALUE_LENGTH characters in
\* head and the rest in tail, or a value of another type (len 0)
Value(is_str, head, tail, len) ==
    [is_str |-> is_str, head |-> head, tail |-> tail, len |-> len]

\* line 240
MAX_VALUE_LENGTH == 100

REDACTED == Value(TRUE, "[REDACTED]", "", 10)

\* line 238
SENSITIVE_KEYS ==
    {<<"k", "e", "y">>, <<"t", "o", "k", "e", "n">>, <<"p", "a", "s", "s", "w", "o", "r", "d">>, <<"s", "e", "c", "r", "e", "t">>,
     <<"c", "r", "e", "d", "e", "n", "t", "i", "a", "l">>, <<"a", "p", "i", "_", "k", "e", "y">>, <<"a", "p", "i", "k", "e", "y">>}

\* line 239
TRUNCATE_KEYS ==
    {<<"d", "e", "s", "c">>, <<"d", "e", "s", "c", "r", "i", "p", "t", "i", "o", "n">>, <<"t", "e", "x", "t">>, <<"b", "o", "d", "y">>, <<"c", "o", "n", "t", "e", "n", "t">>}

\* value[:MAX_VALUE_LENGTH] + "..."
Truncated(value) == Value(TRUE, value.head, "...", MAX_VALUE_LENGTH + 3)

\* one turn of the loop of lines 243-258
FilteredValue(key_lower, value) ==
    IF \E sub \in SENSITIVE_KEYS : Contains(key_lower, sub) THEN REDACTED
    ELSE IF /\ \E sub \in TRUNCATE_KEYS : Contains(key_lower, sub)
            /\ value.is_str /\ value.len > MAX_VALUE_LENGTH
         THEN Truncated(value)
    ELSE IF value.is_str /\ value.len > MAX_VALUE_LENGTH THEN Truncated(value)
    ELSE value

_filter_sensitive_params_case_sensitive(params) ==
    [key \in DOMAIN params |-> FilteredValue(key, params[key])]

_filter_sensitive_params(params) ==
    [key \in DOMAIN params |-> FilteredValue(LowerAll(key), params[key])]

\* what log_tool_execution hands to the logger: nothing, or one event
NoRecord == [emitted |-> FALSE]

LogRecord(event, log_data) == [emitted |-> TRUE, event |-> event, log_data |-> log_data]

\* lines 202-226; params is a dict, the empty one standing for None too
\* (both are falsy at line 210), result_summary and error are None or text
log_tool_execution(tool_name, params, result_summary, error) ==
    IF policy_config.DISABLE_OPERATION_LOGGING THEN NoRecord
    ELSE IF ~should_log_operation(tool_name) THEN NoRecord
    ELSE LET policy == get_tool_policy(tool_name)
             safe_params == IF params # EmptyDict THEN _filter_sensitive_params(params)
                            ELSE EmptyDict
             log_data == [tool |-> tool_name, risk_level |-> policy.risk,
                          action |-> policy.action, params |-> safe_params]
             with_result == IF result_summary # None
                            THEN Put(log_data, "result", result_summary)
                            ELSE log_data
         IN  IF error # None
             THEN LogRecord("tool_execution_failed", Put(with_result, "error", error))
             ELSE LogRecord("tool_executed", with_result)

\* the keys and values of the params the tools are logged with
ParamKeys == {<<"i", "d">>, <<"A", "P", "I", "_", "K", "E", "Y">>, <<"d", "e", "s", "c", "r", "i", "p", "t", "i", "o", "n">>}

ParamValues ==
    {Value(TRUE, "v1", "", 2), Value(TRUE, "v2", "", 2), Value(TRUE, "long", "rest", 150)}

ParamDicts == UNION {[keys -> ParamValues] : keys \in SUBSET ParamKeys}

LogNames ==
    {<<"d", "e", "l", "e", "t", "e", "_", "i", "t", "e", "m">>, <<"g", "e", "t", "_", "i", "t", "e", "m">>,
     <<"c", "r", "e", "a", "t", "e", "_", "i", "t", "e", "m">>, <<"a", "p", "i", "_", "d", "e", "l", "e", "t", "e", "_", "i", "t", "e", "m">>}

\* the configurations the executions are logged under
LogConfigs ==
    {LoggingConfig(PolicyConfig(blocked, confirm, FALSE), audit, disabled) :
        blocked \in {<<>>, <<<<"d", "e", "l", "e", "t", "e">>>>}, confirm \in {<<>>, <<<<"i", "t", "e", "m">>>>},
        audit \in BOOLEAN, disabled \in BOOLEAN}

LogCall(tool_name, params, result_summary, error, result) ==
    [op |-> "log_tool_execution", tool_name |-> tool_name, params |-> params,
     result_summary |-> result_summary, error |-> error, result |-> result]

\* one execution is logged, and the logger takes the event handed to it
LogToolExecution(tool_name, params, result_summary, error) ==
    /\ policy_query = NoPolicyQuery
    /\ policy_query' =
           LogCall(tool_name, params, result_summary, error,
                   log_tool_execution(tool_name, params, result_summary, error))
    /\ UNCHANGED nonPolicyVars

TakeLogRecord ==
    /\ policy_query # NoPolicyQuery
    /\ policy_query' = NoPolicyQuery
    /\ UNCHANGED nonPolicyVars

LogNext ==
    \/ \E tool_name \in LogNames, params \in ParamDicts,
          result_summary \in {None, "ok"}, error \in {None, "failed"} :
           LogToolExecution(tool_name, params, result_summary, error)
    \/ TakeLogRecord

PolicyNext ==
    \/ \E tool_name \in PolicyNames : IsToolBlocked(tool_name)
    \/ \E tool_name \in PolicyNames : GetToolPolicy(tool_name)
    \/ \E tool_name \in PolicyNames : ShouldLogOperation(tool_name)

-----------------------------------------------------------------------------
(* Compiling a description into tools, openapi_tools.py *)

Verbs == {<<"g", "e", "t">>, <<"p", "o", "s", "t">>, <<"p", "u", "t">>, <<"d", "e", "l", "e", "t", "e">>, <<"p", "a", "t", "c", "h">>}

\* lines 26-41: the first declaration of a (name, in) pair is kept
RECURSIVE MergeParams(_, _, _)
MergeParams(params, i, merged) ==
    IF i > Len(params) THEN merged
    ELSE MergeParams(params, i + 1,
             IF \E k \in 1..Len(merged) :
                    /\ merged[k].name = params[i].name
                    /\ merged[k].in = params[i].in
             THEN merged
             ELSE Append(merged, params[i]))

_collect_parameters_of_operation(path_params, op_params) ==
    MergeParams(op_params, 1, <<>>)

_collect_parameters(path_params, op_params) ==
    MergeParams(path_params \o op_params, 1, <<>>)

\* [p["name"] for p in params]
NamesOf(params) == [i \in 1..Len(params) |-> params[i].name]

\* p.get("in") == "path"
IsPathParam(p) == p.in = "path"

\* p.get("in") == "query" and p.get("required") is True
IsRequiredQueryParam(p) == p.in = "query" /\ p.required

\* p.get("in") == "query" and p.get("required") is not True
IsOptionalQueryParam(p) == p.in = "query" /\ ~p.required

\* what _make_tool captures and mcp.tool registers, lines 159-198
Tool(tool_name, method, path, path_level_params, op) ==
    LET all_params == _collect_parameters(path_level_params, op.parameters)
    IN  [tool_name |-> tool_name,
         method |-> method,
         path_template |-> path,
         required_path_params |-> NamesOf(SelectSeq(all_params, IsPathParam)),
         required_query_params |->
             NamesOf(SelectSeq(all_params, IsRequiredQueryParam)),
         optional_query_params |->
             NamesOf(SelectSeq(all_params, IsOptionalQueryParam)),
         has_request_body |-> op.requestBody]

IsVerbAny(method) == TRUE

\* line 146: method.lower() in {"get", "post", "put", "delete", "patch"}
IsVerb(method) == LowerAll(method) \in Verbs

\* the registration state of the two loops
Registration(seen_tool_names, registered) ==
    [seen_tool_names |-> seen_tool_names, tools |-> registered]

RegisterItemLastWins(prefix, max_name_len, path_item, item, reg) ==
    IF ~IsVerb(item.method) THEN reg
    ELSE IF ~item.op.is_dict THEN reg
    ELSE LET op_id == item.op.operationId
             name_seed == IF op_id # <<>> THEN op_id
                          ELSE item.method \o <<"_">> \o path_item.path
             tool_name == prefix \o <<"_">> \o _sanitize_name(name_seed, max_name_len)
             tool == Tool(tool_name, item.method, path_item.path,
                          path_item.parameters, item.op)
         IN  IF tool_name \in reg.seen_tool_names
             THEN Registration(reg.seen_tool_names,
                      [i \in 1..Len(reg.tools) |->
                          IF reg.tools[i].tool_name = tool_name THEN tool
                          ELSE reg.tools[i]])
             ELSE Registration(reg.seen_tool_names \cup {tool_name},
                               Append(reg.tools, tool))

\* lines 146-198, one turn of the inner loop
RegisterItem(prefix, max_name_len, path_item, item, reg) ==
    IF ~IsVerb(item.method) THEN reg
    ELSE IF ~item.op.is_dict THEN reg
    ELSE LET op_id == item.op.operationId
             name_seed == IF op_id # <<>> THEN op_id
                          ELSE item.method \o <<"_">> \o path_item.path
             tool_name == prefix \o <<"_">> \o _sanitize_name(name_seed, max_name_len)
         IN  IF tool_name \in reg.seen_tool_names THEN reg
             ELSE Registration(
                      reg.seen_tool_names \cup {tool_name},
                      Append(reg.tools,
                             Tool(tool_name, item.method, path_item.path,
                                  path_item.parameters, item.op)))

RECURSIVE RegisterItems(_, _, _, _, _)
RegisterItems(prefix, max_name_len, path_item, i, reg) ==
    IF i > Len(path_item.items) THEN reg
    ELSE RegisterItems(prefix, max_name_len, path_item, i + 1,
             RegisterItem(prefix, max_name_len, path_item, path_item.items[i], reg))

RECURSIVE RegisterPaths(_, _, _, _, _)
RegisterPaths(prefix, max_name_len, paths, j, reg) ==
    IF j > Len(paths) THEN reg
    ELSE RegisterPaths(prefix, max_name_len, paths, j + 1,
             RegisterItems(prefix, max_name_len, paths[j], 1, reg))

\* the tools registered and the count returned
register_openapi_tools(paths, prefix) ==
    LET prefix_len == Len(prefix) + 1
        max_name_len == McpNameLimit - prefix_len
        reg == RegisterPaths(prefix, max_name_len, paths, 1, Registration({}, <<>>))
    IN  [tools |-> reg.tools, tool_count |-> Cardinality(reg.seen_tool_names)]

-----------------------------------------------------------------------------
(* Invoking a generated tool, openapi_tools.py and server.py *)

\* str.upper, on ASCII
upper(ch) ==
    IF ch \in Range(LowerLetters)
    THEN UpperLetters[CHOOSE i \in 1..Len(LowerLetters) : LowerLetters[i] = ch]
    ELSE ch

UpperAll(name) == [i \in 1..Len(name) |-> upper(name[i])]

\* dict.update
Update(d, e) ==
    [k \in DOMAIN d \cup DOMAIN e |-> IF k \in DOMAIN e THEN e[k] ELSE d[k]]

\* the keyword arguments of a call: the names a caller may pass, each with
\* the caller's value; an optional one may also be passed as None
ArgNames == {"id", "q", "key", "body"}

ArgDicts ==
    UNION {[names -> {"caller"}] : names \in SUBSET ArgNames}
    \cup {Put(a, "key", None) :
             a \in UNION {[names -> {"caller"}] : names \in SUBSET (ArgNames \ {"key"})}}

\* what the API answers to one request: a status, or no connection
ApiResponse(type, status) == [type |-> type, status |-> status]

ApiResponses ==
    {ApiResponse("response", 200), ApiResponse("response", 404),
     ApiResponse("response", 503), ApiResponse("ConnectError", 0)}

\* server._require_auth followed by get_auth_params, server.py lines 112-115
_auth_params ==
    IF ~is_authenticated THEN Raised("RuntimeError", 0, "auth_required")
    ELSE get_auth_params

\* server._require_auth followed by get_auth_headers, server.py lines 118-121
_auth_headers ==
    IF ~is_authenticated THEN Raised("RuntimeError", 0, "auth_required")
    ELSE get_auth_headers

NoRequest == [sent |-> FALSE]

\* client.request(method.upper(), path, params=query, json=json_body,
\* headers=headers); path is the template with path_args substituted, json
\* None when no body goes out, and an empty headers dict goes out as None
Request(method, path_template, path_args, params, json_body, headers) ==
    [sent |-> TRUE, method |-> method, path_template |-> path_template,
     path_args |-> path_args, params |-> params, json |-> json_body,
     headers |-> headers]

\* how _execute_request ends: outcome is "returned" or the exception raised
Result(outcome, missing, status, request) ==
    [outcome |-> outcome, missing |-> missing, status |-> status,
     request |-> request]

missing_path(t, args) ==
    SelectSeq(t.required_path_params, LAMBDA p : p \notin DOMAIN args)

missing_query(t, args) ==
    SelectSeq(t.required_query_params, LAMBDA p : p \notin DOMAIN args)

\* lines 232-237
Query_params(t, args, auth) ==
    LET required == [k \in {k \in Range(t.required_query_params) : k \in DOMAIN args}
                        |-> args[k]]
        optional == [k \in {k \in Range(t.optional_query_params) :
                               k \in DOMAIN args /\ args[k] # None}
                        |-> args[k]]
    IN  Update(Update(required, optional), auth)

\* lines 247-259, the response to the request sent
Answered(request, resp) ==
    IF resp.type # "response" THEN Result(resp.type, <<>>, 0, request)
    ELSE IF resp.status >= 400 THEN Result("HTTPStatusError", <<>>, resp.status, request)
    ELSE Result("returned", <<>>, resp.status, request)

json_body_whenever_supplied(t, args) ==
    IF "body" \in DOMAIN args THEN args["body"] ELSE None

\* lines 242-245: the body, None when none goes out
json_body(t, args) ==
    IF t.has_request_body /\ "body" \in DOMAIN args THEN args["body"] ELSE None

_execute_request(t, args, resp) ==
    IF missing_path(t, args) # <<>>
    THEN Result("ValueError", missing_path(t, args), 0, NoRequest)
    ELSE IF missing_query(t, args) # <<>>
    THEN Result("ValueError", missing_query(t, args), 0, NoRequest)
    ELSE IF _auth_params.kind = "raise"
    THEN Result(_auth_params.exc, <<>>, 0, NoRequest)
    ELSE IF _auth_headers.kind = "raise"
    THEN Result(_auth_headers.exc, <<>>, 0, NoRequest)
    ELSE Answered(
             Request(UpperAll(t.method), t.path_template,
                     [p \in Range(t.required_path_params) |-> args[p]],
                     Query_params(t, args, _auth_params.val),
                     json_body(t, args),
                     _auth_headers.val),
             resp)

\* the callable _make_tool builds, lines 87-99
_tool(t, args, resp) == _execute_request(t, args, resp)

NoCall == [called |-> FALSE]

Call(t, args, result) ==
    [called |-> TRUE, tool |-> t, args |-> args, result |-> result]

\* main, server.py lines 421-436: the tools are registered before serving
RegisterOpenapiTools ==
    /\ server_pc = "start"
    /\ LET r == register_openapi_tools(api_spec, tool_prefix)
       IN  /\ tools' = r.tools
           /\ tool_count' = r.tool_count
    /\ server_pc' = "serving"
    /\ UNCHANGED <<api_spec, tool_prefix, policy_config, last_call>>
    /\ UNCHANGED nonToolVars

\* a client calls the i-th registered tool, and the call runs to its end
InvokeTool(i, args, resp) ==
    /\ server_pc = "serving"
    /\ last_call = NoCall
    /\ i <= Len(tools)
    /\ last_call' = Call(tools[i], args, _tool(tools[i], args, resp))
    /\ UNCHANGED <<api_spec, tool_prefix, policy_config, tools, tool_count, server_pc>>
    /\ UNCHANGED nonToolVars

\* the client takes the outcome of its call
TakeToolResult ==
    /\ last_call # NoCall
    /\ last_call' = NoCall
    /\ UNCHANGED <<api_spec, tool_prefix, policy_config, tools, tool_count, server_pc>>
    /\ UNCHANGED nonToolVars

\* no call of api_request has been made
NoApiCall == [pc |-> "idle", result |-> NoRes]

ToolsInitial ==
    /\ api_call = NoApiCall
    /\ sanitize_call = NoSanitizeCall
    /\ api_spec \in Descriptions
    /\ tool_prefix \in Prefixes
    /\ policy_config \in PolicyConfigs
    /\ tools = <<>>
    /\ tool_count = 0
    /\ server_pc = "start"
    /\ last_call = NoCall
    /\ policy_query = NoPolicyQuery

\* a path item holds at most four keys
MaxItems == 4

\* every path item registers at most two tools
MaxTools == 2 * MaxPaths

ToolsNext ==
    \/ RegisterOpenapiTools
    \/ \E i \in 1..MaxTools, args \in ArgDicts, resp \in ApiResponses :
           InvokeTool(i, args, resp)
    \/ TakeToolResult

\* the states of the credential store a tool can be invoked in: no session,
\* a session in force, a session that has expired
Sessions == {"none", "valid", "expired"}

SessionInitial(session) ==
    /\ cache = IF session = "none" THEN EmptyDict
               ELSE Put(EmptyDict, "jwtA", APICredentials(CredsV1, 0, MaxTtl))
    /\ current_jwt = IF session = "none" THEN None ELSE "jwtA"
    /\ cache_ttl_seconds = MaxTtl
    /\ now = IF session = "expired" THEN MaxTtl + 1 ELSE 0
    /\ task = [c \in Tasks |-> IdleTask]
    /\ fetches = IF session = "none" THEN 0 ELSE 1
    /\ ret = NoRet

-----------------------------------------------------------------------------
(* api_request, server.py lines 211-268: _require_auth, then with_retry     *)
(* around _do_request, then the mapping of what with_retry raised          *)

ApiCall(pc, result) == [pc |-> pc, result |-> result]

\* HTTPException(status_code, detail)
HTTPException(status_code, detail) == Raised("HTTPException", status_code, detail)

_do_request_unchecked(resp) ==
    IF resp.type # "response" THEN [type |-> resp.type, status |-> 0]
    ELSE IF resp.status >= 400 THEN [type |-> "HTTPStatusError", status |-> resp.status]
    ELSE [type |-> "ok", status |-> resp.status]

\* _do_request, lines 236-247: one call of it as an outcome of func.  The
\* auth headers and the merged auth parameters are read first; then the
\* request is sent and answered with resp.
_do_request(resp) ==
    IF _auth_headers.kind = "raise" THEN [type |-> _auth_headers.exc, status |-> 0]
    ELSE IF _auth_params.kind = "raise" THEN [type |-> _auth_params.exc, status |-> 0]
    ELSE IF resp.type # "response" THEN [type |-> resp.type, status |-> 0]
    ELSE IF resp.status >= 400 THEN [type |-> "HTTPStatusError", status |-> resp.status]
    ELSE [type |-> "ok", status |-> resp.status]

\* lines 249-268: what api_request does with the outcome of with_retry
MapRetryResult(o) ==
    IF o.type = "ok" THEN Returned([status |-> o.status], "api")
    ELSE IF o.type = "AuthGatewayError" THEN HTTPException(401, "auth")
    ELSE IF o.type = "HTTPStatusError" THEN HTTPException(502, "api_error")
    ELSE IF o.type \in {"ConnectError", "TimeoutException"}
         THEN HTTPException(502, "connection")
    ELSE HTTPException(502, "other")

\* api_request is called: _require_auth(), line 234, outside the try block
ApiRequest ==
    /\ api_call.pc = "idle"
    /\ api_call' = IF ~is_authenticated
                   THEN ApiCall("done", Raised("RuntimeError", 0, "auth_required"))
                   ELSE ApiCall("retrying", NoRes)
    /\ UNCHANGED nonFacadeVars

\* with_retry awaits _do_request once more
DoRequest(resp) ==
    /\ api_call.pc = "retrying"
    /\ CallFunc(_do_request(resp))

\* with_retry has returned or raised, lines 250-268
ApiRequestEnd ==
    /\ api_call.pc = "retrying"
    /\ retry_pc \in {"returned", "raised"}
    /\ api_call' = ApiCall("done", MapRetryResult(retry_result))
    /\ UNCHANGED nonFacadeVars

ApiInitial ==
    /\ max_attempts = RETRY_MAX_ATTEMPTS
    /\ base_delay = RETRY_BASE_DELAY
    /\ max_delay = RETRY_MAX_DELAY
    /\ RetryStart
    /\ \E session \in Sessions : SessionInitial(session)

ApiNext ==
    \/ ApiRequest
    \/ \E resp \in ApiResponses : DoRequest(resp)
    \/ SleepDone
    \/ Exhausted
    \/ ApiRequestEnd
    \/ Tick

\* The server at work: api_request and the generated tools of "/items/{id}"
\* are called while time passes and the session may be ended; the tools
\* are called with and without the id
FacadeArgs == {EmptyDict, [id |-> "caller"]}

FacadeNext ==
    \/ RegisterOpenapiTools
    \/ \E i \in 1..MaxTools, args \in FacadeArgs, resp \in ApiResponses :
           InvokeTool(i, args, resp)
    \/ TakeToolResult
    \/ ApiRequest
    \/ \E resp \in ApiResponses : DoRequest(resp)
    \/ SleepDone
    \/ Exhausted
    \/ ApiRequestEnd
    \/ Tick
    \/ Logout
    \/ TakeResult

-----------------------------------------------------------------------------
(* The specifications *)

\* the parts a specification does not exercise stay at one initial state
ToolsIdle ==
    /\ ToolsInitial
    /\ api_spec = <<>>
    /\ tool_prefix = <<"a", "p", "i">>
    /\ policy_config = PolicyConfig(<<>>, <<>>, FALSE)

AuthInit == AuthInitial /\ RetryInitial /\ max_attempts = 0 /\ ToolsIdle

SpecAuth == AuthInit /\ [][AuthNext]_vars

RetryInit == RetryInitial /\ AuthInitial /\ cache_ttl_seconds = 0 /\ ToolsIdle

SpecRetry == RetryInit /\ [][RetryNext]_vars

\* every call of func returns or raises, and every sleep ends
SpecRetryLive == RetryInit /\ [][RetryNext]_vars /\ WF_vars(RetryNext)

BackoffInit == BackoffInitial /\ AuthInitial /\ cache_ttl_seconds = 0 /\ ToolsIdle

SpecBackoff == BackoffInit /\ [][BackoffNext]_vars

ToolsInit ==
    /\ ToolsInitial
    /\ policy_config \in ToolPolicyConfigs
    /\ \E session \in Sessions : SessionInitial(session)
    /\ RetryInitial
    /\ max_attempts = 0

SpecTools == ToolsInit /\ [][ToolsNext]_vars

\* compiling alone: main up to the point where the server starts serving
CompileInit ==
    /\ ToolsInitial
    /\ policy_config = PolicyConfig(<<>>, <<>>, FALSE)
    /\ AuthInitial
    /\ cache_ttl_seconds = 0
    /\ RetryInitial
    /\ max_attempts = 0

CompileNext == RegisterOpenapiTools

SpecCompile == CompileInit /\ [][CompileNext]_vars

\* the tools of a server with the default prefix and no tool policies
InvokeInit ==
    /\ ToolsInitial
    /\ tool_prefix = <<"a", "p", "i">>
    /\ policy_config = PolicyConfig(<<>>, <<>>, FALSE)
    /\ \E session \in Sessions : SessionInitial(session)
    /\ RetryInitial
    /\ max_attempts = 0

SpecInvoke == InvokeInit /\ [][ToolsNext]_vars

PolicyInit ==
    /\ ToolsInitial
    /\ api_spec = <<>>
    /\ tool_prefix = <<"a", "p", "i">>
    /\ AuthInitial
    /\ cache_ttl_seconds = 0
    /\ RetryInitial
    /\ max_attempts = 0

SpecPolicy == PolicyInit /\ [][PolicyNext]_vars

LogInit ==
    /\ PolicyInit
    /\ policy_config \in LogConfigs

SpecLog == LogInit /\ [][LogNext]_vars

LoggedOutInFlightInit ==
    LoggedOutInFlightInitial /\ RetryInitial /\ max_attempts = 0 /\ ToolsIdle

SpecLoggedOutInFlight == LoggedOutInFlightInit /\ [][LoggedOutInFlightNext]_vars

SanitizeInit == RetryInit /\ max_attempts = 0

SpecSanitize == SanitizeInit /\ [][SanitizeNext]_vars

ApiInit == ApiInitial /\ ToolsIdle

FacadeInit ==
    /\ ApiInitial
    /\ ToolsInitial
    /\ api_spec = <<ItemPath>>
    /\ tool_prefix = <<"a", "p", "i">>
    /\ policy_config = PolicyConfig(<<>>, <<>>, FALSE)

SpecFacade == FacadeInit /\ [][FacadeNext]_vars

SpecApi == ApiInit /\ [][ApiNext]_vars

-----------------------------------------------------------------------------
(* Properties of the credential store, checked under SpecAuth *)

\* The active session pointer is set, the cache holds an entry under it and
\* that entry has not expired (now <= fetchedAt + ttlSeconds).
SessionValid ==
    /\ current_jwt \in Tokens
    /\ current_jwt \in DOMAIN cache
    /\ now <= cache[current_jwt].fetched_at + cache[current_jwt].ttl_seconds

\* C1: authenticate(t) called while the entry cached for t has not expired
\* (now <= fetchedAt + ttlSeconds) sends no GET to the gateway and returns
\* the cached CredentialSet, leaving the cache as it is.
C1_CacheHitNoFetch ==
    [][\A c \in Tasks, jwt \in Tokens :
         (/\ AuthenticateCall(c, jwt)
          /\ jwt \in DOMAIN cache
          /\ now <= cache[jwt].fetched_at + cache[jwt].ttl_seconds)
         => (/\ fetches' = fetches
             /\ task' = task
             /\ cache' = cache
             /\ ret'.res.kind = "return"
             /\ ret'.res.val = cache[jwt])]_vars

\* Two calls for one token were answered with one fetch: the second call
\* returned from the cache at the last instant of the entry's life.
C1_Witness ==
    /\ ret.op = "authenticate"
    /\ ret.res.kind = "return"
    /\ ret.res.via = "cache"
    /\ fetches = 1
    /\ now = ret.res.val.fetched_at + ret.res.val.ttl_seconds
    /\ now > 0

\* C2: a gateway fetch that fails with a status, a connect failure, a
\* timeout or a malformed body makes authenticate raise a gateway error and
\* leaves the cache and the active session pointer unchanged.
C2_FailedFetchRaisesGatewayError ==
    [][\A c \in Tasks, resp \in GatewayResponses :
         (/\ FetchRaises(c, resp)
          /\ resp.kind \in {"response", "ConnectError", "TimeoutException"})
         => (/\ IsGatewayError(ret'.res)
             /\ cache' = cache
             /\ current_jwt' = current_jwt)]_vars

\* C8: is_authenticated is true exactly when the session is valid, and
\* get_auth_status reports authenticated, with the entry's expiry, in
\* exactly those states.
C8_AuthenticatedIffSessionValid ==
    /\ [](is_authenticated <=> SessionValid)
    /\ [][IsAuthenticated => (ret'.res.val.flag <=> SessionValid)]_vars
    /\ [][GetAuthStatus =>
            /\ ret'.res.val.authenticated <=> SessionValid
            /\ SessionValid =>
                 ret'.res.val.credentials_expire_at =
                     cache[current_jwt].fetched_at + cache[current_jwt].ttl_seconds
         ]_vars

\* The status query has reported an authenticated session some time after
\* its fetch, while another token is cached too.
C8_Witness ==
    /\ ret.op = "get_auth_status"
    /\ ret.res.val.authenticated
    /\ now > cache[current_jwt].fetched_at
    /\ Cardinality(DOMAIN cache) = 2

\* C9: get_auth_params and get_auth_headers raise the gateway error when
\* the session is not valid, and otherwise return the projection of the
\* entry cached under the active token.
C9_AuthParamsOfActiveSession ==
    /\ [][GetAuthParams =>
            IF SessionValid
            THEN /\ ret'.res.kind = "return"
                 /\ ret'.res.val = to_auth_params(cache[current_jwt])
            ELSE IsGatewayError(ret'.res)]_vars
    /\ [][GetAuthHeaders =>
            IF SessionValid
            THEN /\ ret'.res.kind = "return"
                 /\ ret'.res.val = to_auth_headers(cache[current_jwt])
            ELSE IsGatewayError(ret'.res)]_vars

\* get_auth_params has returned while two tokens with different
\* credentials are cached.
C9_Witness ==
    /\ ret.op = "get_auth_params"
    /\ ret.res.kind = "return"
    /\ \E t \in DOMAIN cache :
          t # current_jwt /\ cache[t].credentials # cache[current_jwt].credentials

\* C10: at most one gateway fetch per token is in flight at any time.
C10_OneFetchInFlightPerToken ==
    \A jwt \in Tokens :
        Cardinality({c \in Tasks : task[c].pc = "fetching" /\ task[c].jwt = jwt}) <= 1

\* a step in which authenticate(jwt) returns the cached entry
ServedFromCache(jwt) == \E c \in Tasks : AuthenticateCall(c, jwt) /\ CacheHit(jwt)

\* a step in which authenticate(jwt) returns credentials: a cache hit, or
\* the store after a fetch
AuthenticateSucceeds(jwt) ==
    \/ ServedFromCache(jwt)
    \/ \E c \in Tasks : AuthenticateResume(c) /\ task[c].jwt = jwt

\* the entries cached for the tokens other than jwt stay as they are
OthersRetained(jwt) ==
    \A u \in Tokens \ {jwt} :
        /\ u \in DOMAIN cache <=> u \in DOMAIN cache'
        /\ u \in DOMAIN cache => cache'[u] = cache[u]

\* C17, as stated: after every successful authenticate(t), t is the active
\* session and get_auth_params projects t's credentials, and the entries of
\* the other tokens are retained; a cache hit fetches nothing.
C17_AuthenticateActivatesAlways ==
    [][\A jwt \in Tokens :
         AuthenticateSucceeds(jwt)
         => (/\ current_jwt' = jwt
             /\ jwt \in DOMAIN cache'
             /\ ret'.res.val = cache'[jwt]
             /\ get_auth_params' = Returned(to_auth_params(cache'[jwt]), "sync")
             /\ OthersRetained(jwt)
             /\ ServedFromCache(jwt) => (fetches' = fetches /\ cache' = cache))]_vars

\* C17, amended: after every successful authenticate(t), t is the active
\* session pointer and t's entry is the one returned; get_auth_params
\* projects it unless it has already expired when authenticate returns
\* (then get_auth_params raises); the entries of the other tokens are
\* retained, and a cache hit fetches nothing and changes no entry.
C17_AuthenticateActivates ==
    [][\A jwt \in Tokens :
         AuthenticateSucceeds(jwt)
         => (/\ current_jwt' = jwt
             /\ jwt \in DOMAIN cache'
             /\ ret'.res.val = cache'[jwt]
             /\ get_auth_params' =
                    IF now > cache'[jwt].fetched_at + cache'[jwt].ttl_seconds
                    THEN NotAuthenticatedError
                    ELSE Returned(to_auth_params(cache'[jwt]), "sync")
             /\ OthersRetained(jwt)
             /\ ServedFromCache(jwt) => (fetches' = fetches /\ cache' = cache))]_vars

\* authenticate(A), authenticate(B), authenticate(A) with nothing expired:
\* the last call was a hit, A is active, both entries are cached and two
\* fetches were made.
C17_Witness ==
    /\ ret.op = "authenticate"
    /\ ret.jwt = "jwtA"
    /\ ret.res.kind = "return"
    /\ ret.res.via = "cache"
    /\ current_jwt = "jwtA"
    /\ DOMAIN cache = {"jwtA", "jwtB"}
    /\ cache["jwtA"].fetched_at < cache["jwtB"].fetched_at
    /\ ~is_expired(cache["jwtA"]) /\ ~is_expired(cache["jwtB"])
    /\ fetches = 2

\* C18: clear_cache(t) removes the entry of t and no other; it resets the
\* active session pointer exactly when t is the active token; clear_cache()
\* removes every entry and resets the pointer.
C18_ClearRemovesExactly ==
    [][\A jwt \in Tokens \cup {None} :
         ClearCache(jwt)
         => IF jwt = None
            THEN cache' = EmptyDict /\ current_jwt' = None
            ELSE /\ DOMAIN cache' = DOMAIN cache \ {jwt}
                 /\ \A u \in DOMAIN cache' : cache'[u] = cache[u]
                 /\ current_jwt' = IF current_jwt = jwt THEN None ELSE current_jwt]_vars

\* The entry of a token that is not the active one was cleared: the other
\* entry and the pointer are still there.
C18_Witness ==
    /\ ret.op = "clear_cache"
    /\ ret.jwt = "jwtB"
    /\ current_jwt = "jwtA"
    /\ DOMAIN cache = {"jwtA"}
    /\ fetches = 2

\* C19: after logout, is_authenticated is false, the token that was active
\* has no entry (authenticate with it fetches again) and the entries of the
\* other tokens are retained; without an active session nothing changes.
C19_LogoutEndsSession ==
    [][Logout =>
         /\ ~is_authenticated'
         /\ current_jwt' = None
         /\ IF current_jwt = None THEN cache' = cache
            ELSE /\ current_jwt \notin DOMAIN cache'
                 /\ ~CacheHit(current_jwt)'
                 /\ OthersRetained(current_jwt)]_vars

\* logout ended the session of one token while the other token's entry
\* stayed in the cache.
C19_Witness ==
    /\ ret.op = "logout"
    /\ ret.jwt = "jwtA"
    /\ ret.res.val.was_authenticated
    /\ current_jwt = None
    /\ DOMAIN cache = {"jwtB"}

\* C20: the fetched_at and ttl_seconds of a cached entry change only when a
\* new fetch for its token is stored: no cache hit, no get_auth_params or
\* get_auth_headers, no status query and no passing of time changes them.
C20_ExpiryFixedAtFetch ==
    [][\A jwt \in DOMAIN cache :
         (jwt \in DOMAIN cache' /\ ~(\E c \in Tasks : AuthenticateResume(c) /\ task[c].jwt = jwt))
         => (/\ cache'[jwt].fetched_at = cache[jwt].fetched_at
             /\ cache'[jwt].ttl_seconds = cache[jwt].ttl_seconds
             /\ expires_at(cache'[jwt]) = expires_at(cache[jwt]))]_vars

\* A cache hit served an entry later than its fetch, and the entry still
\* carries the time of the fetch.
C20_Witness ==
    /\ ret.op = "authenticate"
    /\ ret.res.kind = "return"
    /\ ret.res.via = "cache"
    /\ now > ret.res.val.fetched_at
    /\ cache[ret.jwt].fetched_at = ret.res.val.fetched_at

\* the APICredentials the store holds or is about to store
KnownCredentials ==
    {cache[jwt] : jwt \in DOMAIN cache}
    \cup {task[c].res.val : c \in {c \in Tasks : task[c].pc = "closing"}}

\* C21: an APICredentials with ttl_seconds >= 0 is not expired at the
\* instant of its fetch nor at any now <= fetched_at + ttl_seconds, and is
\* expired at every now > fetched_at + ttl_seconds; while the clock only
\* advances, an entry that is expired stays expired.
C21_ExpiredExactlyAfterTtl ==
    /\ [](\A c \in KnownCredentials :
            /\ c.ttl_seconds >= 0
            /\ c.fetched_at = now => ~is_expired(c)
            /\ is_expired(c) <=> now > c.fetched_at + c.ttl_seconds)
    /\ [][\A c \in KnownCredentials :
            /\ now' >= now
            /\ is_expired(c) => now' > c.fetched_at + c.ttl_seconds]_vars

\* An entry with a ttl of one second, fetched at 0, has gone from not
\* expired (at 0 and 1) to expired (at 2) while it stayed in the cache.
C21_Witness ==
    /\ \E jwt \in DOMAIN cache :
          /\ cache[jwt].ttl_seconds = 1
          /\ cache[jwt].fetched_at = 0
          /\ is_expired(cache[jwt])
    /\ now = 2

\* the gateway error the specification assigns to a failed fetch
GatewayErrorFor(resp) ==
    IF resp.kind = "ConnectError" THEN AuthGatewayError("connect", 0)
    ELSE IF resp.kind = "TimeoutException" THEN AuthGatewayError("timeout", 0)
    ELSE IF resp.status = 401 THEN AuthGatewayError("jwt_invalid", 401)
    ELSE IF resp.status = 403 THEN AuthGatewayError("forbidden", 403)
    ELSE IF resp.status = 404 THEN AuthGatewayError("not_configured", 404)
    ELSE IF resp.status >= 500 THEN AuthGatewayError("unavailable", resp.status)
    ELSE AuthGatewayError("http_error", resp.status)

\* C22: every failure of the fetch to obtain a success status (a failure
\* status, or a failure of the transport) reaches the caller of
\* authenticate as a gateway error, and for a failure status, a connection
\* failure or a timeout it is the gateway error of the matching kind (401
\* unauthorized, 403 forbidden, 404 not configured, 5xx unavailable, any
\* other non-success status a gateway error too).
C22_FetchFailureIsGatewayError ==
    [][\A c \in Tasks, resp \in GatewayResponses :
         (FetchRaises(c, resp) /\ ~(resp.kind = "response" /\ resp.status = 200))
         => (/\ IsGatewayError(ret'.res)
             /\ (resp.kind \in {"ConnectError", "TimeoutException"}
                    \/ (resp.kind = "response" /\ resp.status \in FailureStatuses))
                => ret'.res = GatewayErrorFor(resp))]_vars

\* the body of a success response the specification accepts: an object
\* whose credential object (the data field if present, else the body) is an
\* object with every declared credential name
WellFormedBody(body) ==
    /\ body.json = "dict"
    /\ body.has_data => body.data = "dict"
    /\ \A n \in ExpectedCreds : n \in DOMAIN body.creds

\* C23: a success status with a body that is not well formed makes
\* authenticate fail with the gateway error for a malformed response, and
\* nothing is cached; only a well-formed body is accepted.
C23_MalformedBodyIsGatewayError ==
    [][\A c \in Tasks, resp \in GatewayResponses :
         /\ (FetchRaises(c, resp) /\ resp.kind = "response" /\ resp.status = 200)
            => (/\ ~WellFormedBody(resp.body)
                /\ IsGatewayError(ret'.res)
                /\ ret'.res.message \in {"bad_format", "missing_creds"}
                /\ cache' = cache)
         /\ FetchReturns(c, resp) => WellFormedBody(resp.body)]_vars

\* C33: under any interleaving of authenticate calls suspended in their
\* fetch, clear and logout, a set active-session pointer refers to a token
\* that has an entry in the cache.
C33_PointerNeverDangles ==
    current_jwt # None => current_jwt \in Tokens /\ current_jwt \in DOMAIN cache

\* The entry of the other token was cleared while an authenticate call was
\* awaiting its fetch, and the pointer still refers to a cached token.
C33_Witness ==
    /\ ret.op = "clear_cache"
    /\ ret.jwt = "jwtB"
    /\ current_jwt = "jwtA"
    /\ "jwtA" \in DOMAIN cache
    /\ \E c \in Tasks : task[c].pc \in {"fetching", "closing"}

\* C35, checked under SpecLoggedOutInFlight: logout has completed while
\* authenticate(jwtA) was awaiting its fetch, and no authenticate call
\* starts afterwards; the completion of that fetch installs nothing:
\* is_authenticated stays false and jwtA stays uncached.
C35_NoReinstallAfterLogout ==
    /\ ~is_authenticated
    /\ "jwtA" \notin DOMAIN cache

\* C36, as stated: authenticate(t) called while the entry cached for t is
\* expired returns nothing from the cache and starts exactly one fetch; the
\* APICredentials of a successful fetch carry the time of the fetch, replace
\* the entry of t and are not expired then; an active session whose entry
\* is expired is not authenticated.
C36_ExpiredEntryRefetchedFresh ==
    /\ [](current_jwt \in DOMAIN cache /\ is_expired(cache[current_jwt])
             => ~is_authenticated)
    /\ [][\A c \in Tasks :
            /\ (ret'.op = "authenticate" /\ ret'.res.kind = "return"
                   /\ ret'.res.via = "cache")
                => (/\ ~is_expired(cache[ret'.jwt])
                    /\ ret'.res.val = cache[ret'.jwt])
            /\ (task[c].pc = "idle" /\ task'[c].pc # "idle"
                   /\ task'[c].jwt \in DOMAIN cache)
                => (/\ is_expired(cache[task'[c].jwt])
                    /\ task'[c].pc = "fetching"
                    /\ fetches' = fetches + 1
                    /\ ret' = NoRet /\ cache' = cache)
            /\ (task[c].pc = "fetching" /\ task'[c].pc = "closing")
                => (/\ task'[c].res.val.fetched_at = now
                    /\ fetches' = fetches)
            /\ (AuthenticateResume(c) /\ task[c].jwt \in DOMAIN cache
                   /\ task[c].res.val.fetched_at > expires_at(cache[task[c].jwt]))
                => (/\ cache'[task[c].jwt] = task[c].res.val
                    /\ ret'.res.val = task[c].res.val
                    /\ now' <= cache'[task[c].jwt].fetched_at
                                + cache'[task[c].jwt].ttl_seconds)]_vars

\* C36, amended: as above, but the new APICredentials are not expired at
\* the time of the fetch; they are stored as fetched and may have expired
\* by then.
C36_ExpiredEntryRefetched ==
    /\ [](current_jwt \in DOMAIN cache /\ is_expired(cache[current_jwt])
             => ~is_authenticated)
    /\ [][\A c \in Tasks :
            /\ (ret'.op = "authenticate" /\ ret'.res.kind = "return"
                   /\ ret'.res.via = "cache")
                => (/\ ~is_expired(cache[ret'.jwt])
                    /\ ret'.res.val = cache[ret'.jwt])
            /\ (task[c].pc = "idle" /\ task'[c].pc # "idle"
                   /\ task'[c].jwt \in DOMAIN cache)
                => (/\ is_expired(cache[task'[c].jwt])
                    /\ task'[c].pc = "fetching"
                    /\ fetches' = fetches + 1
                    /\ ret' = NoRet /\ cache' = cache)
            /\ (task[c].pc = "fetching" /\ task'[c].pc = "closing")
                => (/\ task'[c].res.val.fetched_at = now
                    /\ now' <= task'[c].res.val.fetched_at
                                + task'[c].res.val.ttl_seconds
                    /\ fetches' = fetches)
            /\ (AuthenticateResume(c) /\ task[c].jwt \in DOMAIN cache
                   /\ task[c].res.val.fetched_at > expires_at(cache[task[c].jwt]))
                => (/\ cache'[task[c].jwt] = task[c].res.val
                    /\ ret'.res.val = task[c].res.val)]_vars

\* The fetch of an authenticate call for a token whose cached entry is
\* expired has returned new credentials, about to replace the entry.
C36_Witness ==
    \E c \in Tasks :
        /\ task[c].pc = "closing"
        /\ task[c].jwt \in DOMAIN cache
        /\ is_expired(cache[task[c].jwt])
        /\ ~is_expired(task[c].res.val)

-----------------------------------------------------------------------------
(* Properties of with_retry, checked under SpecRetry *)

\* A failure the retry policy retries: a status of the retryable set, or a
\* connect or timeout failure of the transport.
RetryableFailure(o) ==
    \/ o.type = "HTTPStatusError" /\ o.status \in {429, 500, 502, 503, 504}
    \/ o.type \in {"ConnectError", "TimeoutException"}

\* C4: an attempt i < maxAttempts-1 is followed by another attempt exactly
\* when it failed with a retryable failure; any other failure is raised at
\* once, and it is the failure of that attempt.
C4_RetryIffRetryable ==
    /\ [][\A k \in FuncOutcomes :
            (CallFunc(k) /\ attempt < max_attempts - 1) =>
               LET o == Outcome(k.type, k.status, attempt) IN
               /\ RetryableFailure(o) <=> retry_pc' = "sleeping"
               /\ (~RetryableFailure(o) /\ o.type # "ok") =>
                     (retry_pc' = "raised" /\ retry_result' = o)
               /\ o.type = "ok" => retry_pc' = "returned"]_vars
    /\ [][SleepDone => (retry_pc' = "loop" /\ attempt' = attempt + 1
                        /\ attempt' < max_attempts)]_vars
    /\ [](retry_pc \in {"returned", "raised"} => ~ENABLED RetryNext)
    /\ [](retry_pc = "loop" /\ attempt < max_attempts =>
             \A k \in FuncOutcomes : ENABLED CallFunc(k))

\* A second attempt was made after a 429, and it failed with a status that
\* is not retryable.
C4_Witness ==
    /\ retry_pc = "raised"
    /\ Len(func_calls) = 2
    /\ func_calls[1].status = 429
    /\ func_calls[2].status = 404
    /\ max_attempts = 3

\* C5: when every attempt fails with a retryable failure, exactly
\* maxAttempts calls are made and the failure raised is the one of the
\* final attempt.
C5_ExhaustedRaisesLast ==
    (/\ retry_pc = "raised"
     /\ max_attempts >= 1
     /\ \A i \in 1..Len(func_calls) : RetryableFailure(func_calls[i]))
    => (/\ Len(func_calls) = max_attempts
        /\ retry_result = func_calls[max_attempts]
        /\ retry_result.attempt = max_attempts - 1)

\* Three attempts failed with 503, 500 and a timeout; the timeout was raised.
C5_Witness ==
    /\ retry_pc = "raised"
    /\ Len(func_calls) = 3
    /\ func_calls[1].status = 503
    /\ func_calls[2].status = 500
    /\ func_calls[3].type = "TimeoutException"
    /\ retry_result = func_calls[3]

\* C25: with_retry sleeps only between two attempts.  No sleep follows
\* the final attempt (attempt max_attempts - 1); a run that returns at
\* attempt k has slept after each of the attempts 0..k-1 and no more; a run
\* that uses up max_attempts >= 1 attempts has slept max_attempts - 1 times;
\* a run ended by a failure that is not retryable has not slept after it.
C25_SleepsOnlyBetweenAttempts ==
    /\ \A i \in slept : 0 <= i /\ i < max_attempts - 1
    /\ retry_pc = "sleeping" => (attempt \in slept /\ attempt < max_attempts - 1)
    /\ (retry_pc = "returned")
          => (/\ slept = 0..(retry_result.attempt - 1)
              /\ Cardinality(slept) = retry_result.attempt)
    /\ (/\ retry_pc = "raised"
        /\ max_attempts >= 1
        /\ \A i \in 1..Len(func_calls) : RetryableFailure(func_calls[i]))
          => Cardinality(slept) = max_attempts - 1
    /\ (/\ retry_pc = "raised"
        /\ func_calls # <<>>
        /\ ~RetryableFailure(func_calls[Len(func_calls)]))
          => (/\ func_calls[Len(func_calls)].attempt \notin slept
              /\ slept = 0..(Len(func_calls) - 2))

\* Three attempts failed with a connection failure and the run ended; it
\* slept after the first and the second attempt only.
C25_Witness ==
    /\ retry_pc = "raised"
    /\ max_attempts = 3
    /\ Len(func_calls) = 3
    /\ \A i \in 1..3 : func_calls[i].type = "ConnectError"
    /\ slept = {0, 1}

\* min(base * 2^i, cap)
CappedExponential(base, cap, i) ==
    IF base * Pow2(i) < cap THEN base * Pow2(i) ELSE cap

\* C26: while with_retry sleeps after the failed attempt i, the time slept
\* is d + j with d = min(base_delay * 2^i, max_delay) and 0 <= j <= d/10 (d
\* in seconds, j in tenths of a second, so 0 <= j <= d).  With base_delay 1
\* and max_delay 30 it lies in [2^i, 1.1 * 2^i] for i = 0, 1, 2; d does not
\* decrease with i; once base_delay * 2^i exceeds max_delay the time lies in
\* [max_delay, 1.1 * max_delay].
C26_BackoffDelay ==
    /\ retry_pc = "sleeping" =>
          LET i == attempt
              d == CappedExponential(base_delay, max_delay, i)
              tenths == 10 * total_delay.delay + total_delay.jitter
          IN  /\ total_delay.delay = d
              /\ 0 <= total_delay.jitter /\ total_delay.jitter <= d
              /\ 10 * d <= tenths /\ 10 * tenths <= 110 * d
              /\ (base_delay = 1 /\ max_delay = 30 /\ i <= 2)
                    => (10 * Pow2(i) <= tenths /\ 10 * tenths <= 110 * Pow2(i))
              /\ base_delay * Pow2(i) > max_delay
                    => (10 * max_delay <= tenths /\ 10 * tenths <= 110 * max_delay)
    /\ \A i \in 0..MaxBackoffAttempts : delay(i) <= delay(i + 1)

\* With base_delay 1 and max_delay 3, with_retry sleeps after the third
\* failed attempt: 2^2 exceeds the cap, and 3 seconds and the largest
\* jitter, 0.3 seconds, are slept.
C26_Witness ==
    /\ retry_pc = "sleeping"
    /\ attempt = 2
    /\ base_delay = 1
    /\ max_delay = 3
    /\ total_delay = TotalDelay(3, 3)
    /\ slept = {0, 1, 2}

\* C37, checked under SpecRetryLive: with_retry ends, returning a result or
\* raising; it calls func at most max_attempts times and never again after
\* a call that succeeded; with max_attempts <= 0 it calls nothing and
\* raises.
C37_RetryTerminates ==
    /\ <>(retry_pc \in {"returned", "raised"})
    /\ [](/\ Len(func_calls) <= (IF max_attempts > 0 THEN max_attempts ELSE 0)
          /\ \A i \in 1..(Len(func_calls) - 1) : func_calls[i].type # "ok"
          /\ retry_pc = "returned"
                => func_calls # <<>> /\ retry_result = func_calls[Len(func_calls)]
          /\ max_attempts <= 0 => func_calls = <<>> /\ retry_pc # "returned")
    /\ [][(retry_pc \in {"returned", "raised"}) => (func_calls' = func_calls)]_vars

\* with_retry has raised after max_attempts calls of func that all failed
\* with retryable errors
C37_Witness ==
    /\ retry_pc = "raised"
    /\ max_attempts = MaxAttempts
    /\ Len(func_calls) = MaxAttempts
    /\ \A i \in 1..Len(func_calls) : RetryableFailure(func_calls[i])

-----------------------------------------------------------------------------
(* Properties of the generated tools, checked under SpecTools, and of     *)
(* compiling, checked under SpecCompile                                    *)

\* the required names of the called tool that the argument map lacks
AbsentRequired(call) ==
    {p \in Range(call.tool.required_path_params)
           \cup Range(call.tool.required_query_params) : p \notin DOMAIN call.args}

\* C3: a call that lacks at least one required path or query name sends no
\* request and fails with a validation failure whose list of missing names
\* is the set of all absent required names, path and query together.
C3_MissingNamesAllListed ==
    (last_call.called /\ AbsentRequired(last_call) # {})
    => (/\ ~last_call.result.request.sent
        /\ last_call.result.outcome = "ValueError"
        /\ Range(last_call.result.missing) = AbsentRequired(last_call))

\* C6: a call of a generated tool whose name is blocked (it matches a
\* blocked pattern and the override flag is unset) never sends a request,
\* whatever the session is: the policy decides before dispatch.
C6_BlockedToolSendsNothing ==
    (last_call.called /\ is_tool_blocked(last_call.tool.tool_name))
    => ~last_call.result.request.sent

\* C7: once the description is compiled, no two registered tools have the
\* same name, and every registered name is at most 64 characters long.
C7_NamesUniqueAndWithinLimit ==
    server_pc = "serving"
    => (/\ \A i, j \in 1..Len(tools) :
              i # j => tools[i].tool_name # tools[j].tool_name
        /\ \A i \in 1..Len(tools) : Len(tools[i].tool_name) <= McpNameLimit)

\* the query arguments of a call: the declared query parameters the caller
\* passed with a value
QueryArgs(call) ==
    {k \in DOMAIN call.args :
        /\ k \in Range(call.tool.required_query_params)
                 \cup Range(call.tool.optional_query_params)
        /\ call.args[k] # None}

\* C11: in the request a generated tool sends, every query argument of the
\* caller goes out with the caller's value, also when an auth query
\* parameter has the same name.
C11_CallerQueryValueWins ==
    (last_call.called /\ last_call.result.request.sent)
    => \A k \in QueryArgs(last_call) :
           last_call.result.request.params[k] = last_call.args[k]

\* C27: the query parameters of a request sent are exactly the declared
\* query parameters the caller passed with a value (every required one, and
\* the optional ones that are present and not None) and the projected auth
\* query parameters, and nothing else; every required one goes out with the
\* caller's value, every other one with its own value (where an optional
\* parameter has the name of an auth parameter, either value is accepted
\* here).
C27_QueryParamsExact ==
    (last_call.called /\ last_call.result.request.sent)
    => LET sent == last_call.result.request.params
           auth == get_auth_params.val
           required == Range(last_call.tool.required_query_params)
           own == required \cup QueryArgs(last_call)
       IN  /\ DOMAIN sent = own \cup DOMAIN auth
           /\ \A k \in required : sent[k] = last_call.args[k]
           /\ \A k \in own \ DOMAIN auth : sent[k] = last_call.args[k]
           /\ \A k \in (DOMAIN auth) \ required : sent[k] = auth[k]

\* the number of requests one call of a generated tool has sent
RequestsSent(call) == IF call.result.request.sent THEN 1 ELSE 0

\* C12: a call of a generated tool that ends with a retryable failure (a
\* retryable status, or a connect or timeout failure) has made
\* RETRY_MAX_ATTEMPTS attempts: each attempt but the last was retried.
C12_GeneratedToolRetried ==
    (/\ last_call.called
     /\ RetryableFailure([type |-> last_call.result.outcome,
                          status |-> last_call.result.status]))
    => RequestsSent(last_call) = RETRY_MAX_ATTEMPTS

\* C15: when the path level and the operation level both declare a query
\* parameter with the same name, the compiled tool lists it once, and as
\* required or optional as the operation-level declaration says.
C15_OperationLevelParamWins ==
    server_pc = "serving" =>
        \A i \in 1..Len(tools), j \in 1..Len(api_spec) :
            \A k \in 1..Len(api_spec[j].items) :
                LET t == tools[i]
                    path_item == api_spec[j]
                    item == path_item.items[k]
                    listed == t.required_query_params \o t.optional_query_params
                IN  (/\ path_item.path = t.path_template
                     /\ item.method = t.method
                     /\ item.op.is_dict)
                    => \A p \in Range(item.op.parameters) :
                           (/\ p.in = "query"
                            /\ \E pp \in Range(path_item.parameters) :
                                   pp.name = p.name /\ pp.in = p.in)
                           => /\ Cardinality({n \in 1..Len(listed) : listed[n] = p.name}) = 1
                              /\ p.required <=> p.name \in Range(t.required_query_params)

\* the verb entries that can register a tool, as <<path index, key index>>
\* in iteration order
VerbEntries ==
    {e \in (1..Len(api_spec)) \X (1..MaxItems) :
        /\ e[2] <= Len(api_spec[e[1]].items)
        /\ LowerAll(api_spec[e[1]].items[e[2]].method) \in Verbs
        /\ api_spec[e[1]].items[e[2]].op.is_dict}

\* the prefixed sanitized name of a verb entry
EntryName(e) ==
    LET path_item == api_spec[e[1]]
        item == path_item.items[e[2]]
        seed == IF item.op.operationId # <<>> THEN item.op.operationId
                ELSE item.method \o <<"_">> \o path_item.path
    IN  tool_prefix \o <<"_">>
            \o _sanitize_name(seed, McpNameLimit - (Len(tool_prefix) + 1))

Before(e, f) == e[1] < f[1] \/ (e[1] = f[1] /\ e[2] < f[2])

\* C16: of the verb entries that yield one name only the first in iteration
\* order is registered, with its own method, path and request body; the
\* later ones are skipped, and the count returned is the number of tools
\* registered.
C16_FirstWinsAndCount ==
    [][RegisterOpenapiTools =>
        /\ tool_count' = Len(tools')
        /\ Len(tools') = Cardinality({EntryName(e) : e \in VerbEntries})
        /\ \A e \in VerbEntries :
               (\A f \in VerbEntries : EntryName(f) = EntryName(e) => ~Before(f, e))
               => \E i \in 1..Len(tools') :
                      /\ tools'[i].tool_name = EntryName(e)
                      /\ tools'[i].method = api_spec[e[1]].items[e[2]].method
                      /\ tools'[i].path_template = api_spec[e[1]].path
                      /\ tools'[i].has_request_body
                             = api_spec[e[1]].items[e[2]].op.requestBody]_vars

\* /items then /odd were compiled: GetItems of /odd collided with getItems
\* of /items and was skipped, three tools were registered.
C16_Witness ==
    /\ server_pc = "serving"
    /\ api_spec = <<ItemsPath, OddPath>>
    /\ Len(tool_prefix) = 3
    /\ tool_count = 3
    /\ Len(tools) = 3
    /\ tools[1].path_template = ItemsPath.path
    /\ \A i \in 1..3 : tools[i].tool_name = EntryName(<<2, 4>>) => i = 1

\* the verb entry a registered tool was compiled from: the one under the
\* tool's path with the tool's method key
EntryOf(t) ==
    CHOOSE e \in (1..Len(api_spec)) \X (1..MaxItems) :
        /\ e[2] <= Len(api_spec[e[1]].items)
        /\ api_spec[e[1]].path = t.path_template
        /\ api_spec[e[1]].items[e[2]].method = t.method

OnlyVerbEntries(paths) ==
    [j \in 1..Len(paths) |->
        PathItem(paths[j].path, paths[j].parameters,
                 SelectSeq(paths[j].items,
                           LAMBDA item : LowerAll(item.method) \in Verbs /\ item.op.is_dict))]

\* C29: compiling ignores what it does not recognise and completes with a
\* count: a key under a path that is no verb (compared without case) and a
\* verb whose value is no object register nothing and do not change what
\* the other entries register, every verb entry with an object value is
\* considered, and a description without paths gives no tool and count 0.
C29_UnrecognisedIgnored ==
    [][RegisterOpenapiTools =>
        /\ server_pc' = "serving"
        /\ tool_count' \in 0..(MaxPaths * MaxItems)
        /\ {tools'[i].tool_name : i \in 1..Len(tools')}
               = {EntryName(e) : e \in VerbEntries}
        /\ \A i \in 1..Len(tools') :
               \E e \in VerbEntries :
                   /\ api_spec[e[1]].path = tools'[i].path_template
                   /\ api_spec[e[1]].items[e[2]].method = tools'[i].method
        /\ [tools |-> tools', tool_count |-> tool_count']
               = register_openapi_tools(OnlyVerbEntries(api_spec), tool_prefix)
        /\ api_spec = <<>> => (tools' = <<>> /\ tool_count' = 0)]_vars

\* /odd was compiled under the default prefix: the extension key and the
\* get whose value is no object registered nothing, DELETE and put
\* registered their tools.
C29_Witness ==
    /\ server_pc = "serving"
    /\ api_spec = <<OddPath>>
    /\ tool_prefix = <<"a", "p", "i">>
    /\ tool_count = 2
    /\ Len(tools) = 2
    /\ tools[1].method = <<"D", "E", "L", "E", "T", "E">>
    /\ tools[2].method = <<"p", "u", "t">>

\* what compiling "/items/{id}" with its GET getItem is to yield, but for
\* the name
GetItemCompiled(registered) ==
    /\ Len(registered) = 1
    /\ UpperAll(registered[1].method) = <<"G", "E", "T">>
    /\ registered[1].path_template = GetItemPath.path
    /\ registered[1].required_path_params = <<"id">>
    /\ registered[1].required_query_params = <<>>
    /\ registered[1].optional_query_params = <<>>
    /\ ~registered[1].has_request_body

\* every parameter a path declares as a path parameter is a required path
\* parameter of every tool compiled from that path
PathLevelParamsRequired(registered) ==
    \A i \in 1..Len(registered), j \in 1..Len(api_spec) :
        api_spec[j].path = registered[i].path_template
        => \A p \in Range(api_spec[j].parameters) :
               p.in = "path" => p.name \in Range(registered[i].required_path_params)

\* C30, as stated: compiling the description whose only path is
\* /items/{id}, with the path-level parameter id and the GET getItem,
\* yields exactly one tool, named <prefix>_getitem, with method GET, the
\* required path parameter id, no query parameters and no body; and a
\* path-level path parameter is required for every tool under its path.
C30_GetItemExampleAnyPrefix ==
    [][RegisterOpenapiTools =>
        /\ api_spec = <<GetItemPath>> =>
              /\ tool_count' = 1
              /\ GetItemCompiled(tools')
              /\ tools'[1].tool_name
                     = tool_prefix \o <<"_", "g", "e", "t", "i", "t", "e", "m">>
        /\ PathLevelParamsRequired(tools')]_vars

\* C30, amended: the same, the name being <prefix>_getitem when the prefix
\* leaves room for it within the name limit (len(prefix) + 8 <= 64).
C30_GetItemExample ==
    [][RegisterOpenapiTools =>
        /\ api_spec = <<GetItemPath>> =>
              /\ tool_count' = 1
              /\ GetItemCompiled(tools')
              /\ Len(tool_prefix) + 8 <= McpNameLimit =>
                     tools'[1].tool_name
                         = tool_prefix \o <<"_", "g", "e", "t", "i", "t", "e", "m">>
        /\ PathLevelParamsRequired(tools')]_vars

\* The description with the one path and the one GET was compiled under
\* the default prefix into the one tool api_getitem.
C30_Witness ==
    /\ server_pc = "serving"
    /\ api_spec = <<GetItemPath>>
    /\ tool_count = 1
    /\ GetItemCompiled(tools)
    /\ tools[1].tool_name = <<"a", "p", "i", "_", "g", "e", "t", "i", "t", "e", "m">>

\* C38: the policy inferred from a generated name agrees with the verb the
\* tool was compiled from: a tool compiled from a DELETE entry whose name
\* matches no configured pattern is (MEDIUM, ALLOW_WITH_LOGGING), and a tool
\* compiled from a GET entry is (LOW, ALLOW), whether the name came from an
\* operationId or from the {method}_{path} fallback.
C38_PolicyAgreesWithVerb ==
    [][RegisterOpenapiTools =>
        \A i \in 1..Len(tools') :
            /\ (/\ LowerAll(tools'[i].method) = <<"d", "e", "l", "e", "t", "e">>
                /\ ~_matches_pattern(tools'[i].tool_name, policy_config.blocked_patterns)
                /\ ~_matches_pattern(tools'[i].tool_name, policy_config.require_confirmation))
                  => get_tool_policy(tools'[i].tool_name)
                         = Policy("MEDIUM", "ALLOW_WITH_LOGGING")
            /\ LowerAll(tools'[i].method) = <<"g", "e", "t">>
                  => get_tool_policy(tools'[i].tool_name) = Policy("LOW", "ALLOW")]_vars

-----------------------------------------------------------------------------
(* Properties of _sanitize_name, checked under SpecSanitize *)

\* a lower-case letter or a digit
LowerAlnum(ch) == isalnum(ch) /\ lower_str(ch) = <<ch>>

\* C39: for every seed and every max_length >= 1, _sanitize_name returns a
\* non-empty string of at most max_length characters, all of them
\* lower-case alphanumerics or underscores, with no underscore first, last
\* or next to another; a seed without an alphanumeric gives the fallback op
\* (cut to max_length); sanitizing the result again returns it unchanged.
C39_SanitizedShape ==
    sanitize_call.called =>
        LET name == sanitize_call.name
            max_length == sanitize_call.max_length
            result == sanitize_call.result
        IN  /\ result # <<>>
            /\ Len(result) <= max_length
            /\ \A i \in 1..Len(result) : result[i] = "_" \/ LowerAlnum(result[i])
            /\ result[1] # "_" /\ result[Len(result)] # "_"
            /\ \A i \in 1..(Len(result) - 1) : ~(result[i] = "_" /\ result[i + 1] = "_")
            /\ (\A i \in 1..Len(name) : ~isalnum(name[i]))
                  => result = SubSeq(<<"o", "p">>, 1, Min(2, max_length))
            /\ _sanitize_name(result, max_length) = result

-----------------------------------------------------------------------------
(* Properties of the tool policies, checked under SpecPolicy *)

\* the name has the shape of a read: it contains _get_ or starts with get_
GetShape(name) ==
    Contains(LowerAll(name), <<"_", "g", "e", "t", "_">>) \/ startswith(LowerAll(name), <<"g", "e", "t", "_">>)

\* the name has the shape of a deletion
DeleteShape(name) ==
    Contains(LowerAll(name), <<"_", "d", "e", "l", "e", "t", "e", "_">>) \/ startswith(LowerAll(name), <<"d", "e", "l", "e", "t", "e", "_">>)

\* C13: get_tool_policy follows a strict priority: a blocked pattern gives
\* (CRITICAL, BLOCK) even when a confirmation pattern matches too; else a
\* confirmation pattern gives (HIGH, REQUIRE_CONFIRMATION); else the get
\* shape gives (LOW, ALLOW) even when the name has the delete shape too;
\* else the delete shape gives (MEDIUM, ALLOW_WITH_LOGGING); else
\* (LOW, ALLOW_WITH_LOGGING).
C13_ClassifyPriority ==
    policy_query.op = "get_tool_policy" =>
        LET name == policy_query.tool_name
            blocked == _matches_pattern(name, policy_config.blocked_patterns)
            confirm == _matches_pattern(name, policy_config.require_confirmation)
            expected ==
                CASE blocked -> Policy("CRITICAL", "BLOCK")
                  [] ~blocked /\ confirm -> Policy("HIGH", "REQUIRE_CONFIRMATION")
                  [] ~blocked /\ ~confirm /\ GetShape(name) -> Policy("LOW", "ALLOW")
                  [] ~blocked /\ ~confirm /\ ~GetShape(name) /\ DeleteShape(name) ->
                         Policy("MEDIUM", "ALLOW_WITH_LOGGING")
                  [] OTHER -> Policy("LOW", "ALLOW_WITH_LOGGING")
        IN  policy_query.result = expected

\* A name with both shapes and no matching pattern was classified as a read,
\* and delete_item as (MEDIUM, ALLOW_WITH_LOGGING) is covered by the same run.
C13_Witness ==
    /\ policy_query.op = "get_tool_policy"
    /\ policy_query.tool_name = <<"g", "e", "t", "_", "d", "e", "l", "e", "t", "e", "_", "i", "t", "e", "m">>
    /\ policy_config.blocked_patterns = <<>>
    /\ policy_config.require_confirmation = <<>>
    /\ policy_query.result = Policy("LOW", "ALLOW")

\* C14: with ENABLE_CRITICAL_TOOLS set, is_tool_blocked answers false and
\* get_tool_policy never answers BLOCK, for every name.
C14_OverrideBypassesBlocking ==
    policy_config.ENABLE_CRITICAL_TOOLS =>
        /\ policy_query.op = "is_tool_blocked" => ~policy_query.result.flag
        /\ policy_query.op = "get_tool_policy" => policy_query.result.action # "BLOCK"

\* C31: should_log_operation(name) is false for every name when logging is
\* globally disabled; otherwise true for every name when audit_all is
\* configured; otherwise true exactly when get_tool_policy(name) has the
\* action ALLOW_WITH_LOGGING or REQUIRE_CONFIRMATION, so that without
\* audit_all neither ALLOW nor BLOCK operations are logged.
C31_ShouldLog ==
    policy_query.op = "should_log_operation" =>
        LET name == policy_query.tool_name
            logged == policy_query.result.flag
            action == get_tool_policy(name).action
        IN  /\ policy_config.DISABLE_OPERATION_LOGGING => ~logged
            /\ ~policy_config.DISABLE_OPERATION_LOGGING /\ policy_config.audit_all
                   => logged
            /\ ~policy_config.DISABLE_OPERATION_LOGGING /\ ~policy_config.audit_all
                   => /\ logged <=> action \in {"ALLOW_WITH_LOGGING", "REQUIRE_CONFIRMATION"}
                      /\ action \in {"ALLOW", "BLOCK"} => ~logged

\* should_log_operation was asked with logging disabled and audit_all
\* configured, and answered false
C31_Witness ==
    /\ policy_query.op = "should_log_operation"
    /\ policy_config.DISABLE_OPERATION_LOGGING
    /\ policy_config.audit_all
    /\ ~policy_query.result.flag

-----------------------------------------------------------------------------
(* Properties of log_tool_execution, checked under SpecLog *)

\* the key contains one of the sensitive substrings, whatever its case
SensitiveKey(key) ==
    \E sub \in {<<"k", "e", "y">>, <<"t", "o", "k", "e", "n">>, <<"p", "a", "s", "s", "w", "o", "r", "d">>, <<"s", "e", "c", "r", "e", "t">>,
                <<"c", "r", "e", "d", "e", "n", "t", "i", "a", "l">>, <<"a", "p", "i", "_", "k", "e", "y">>, <<"a", "p", "i", "k", "e", "y">>} :
        Search(sub, key)

\* the keys of ParamKeys that are sensitive
SensitiveParamKeys == {key \in ParamKeys : SensitiveKey(key)}

\* the two params dicts differ at most in the values of sensitive keys
DifferOnlyInSensitive(params, other) ==
    /\ DOMAIN params = DOMAIN other
    /\ \A key \in DOMAIN params \ SensitiveParamKeys : params[key] = other[key]

\* C32: log_tool_execution emits no record when logging is disabled or
\* should_log_operation is false; in a record it emits every parameter with
\* a sensitive key carries the redaction marker instead of its value, and
\* an execution that differs only in the values of sensitive parameters
\* emits the identical record.
C32_SensitiveValuesNeverLogged ==
    policy_query.op = "log_tool_execution" =>
        LET name == policy_query.tool_name
            params == policy_query.params
            record == policy_query.result
        IN  /\ policy_config.DISABLE_OPERATION_LOGGING => ~record.emitted
            /\ ~should_log_operation(name) => ~record.emitted
            /\ record.emitted =>
                   /\ DOMAIN record.log_data.params = DOMAIN params
                   /\ \A key \in DOMAIN params \cap SensitiveParamKeys :
                          record.log_data.params[key] = Value(TRUE, "[REDACTED]", "", 10)
            /\ \A other \in [DOMAIN params -> ParamValues] :
                   DifferOnlyInSensitive(params, other) =>
                       log_tool_execution(name, other, policy_query.result_summary,
                                          policy_query.error) = record

\* an execution with a value under API_KEY was logged
C32_Witness ==
    /\ policy_query.op = "log_tool_execution"
    /\ policy_query.result.emitted
    /\ <<"A", "P", "I", "_", "K", "E", "Y">> \in DOMAIN policy_query.params
    /\ policy_query.params[<<"A", "P", "I", "_", "K", "E", "Y">>].head = "v1"
    /\ policy_query.result.log_data.params[<<"A", "P", "I", "_", "K", "E", "Y">>].head = "[REDACTED]"

-----------------------------------------------------------------------------
(* Properties of api_request, checked under SpecApi *)

\* the call failed for want of valid credentials: at the entry of
\* api_request, or inside an attempt of _do_request
CredentialFailure ==
    \/ api_call.pc = "done" /\ func_calls = <<>> /\ retry_pc = "loop"
    \/ retry_pc = "raised" /\ retry_result.type \in {"RuntimeError", "AuthGatewayError"}

\* the call failed with a status or in the transport
UpstreamFailure ==
    /\ retry_pc = "raised"
    /\ retry_result.type \in {"HTTPStatusError", "ConnectError", "TimeoutException"}

\* an authentication-class outcome: the 401 of the AuthGatewayError
\* handler, or the authentication-required error of _require_auth
AuthClass(res) ==
    /\ res.kind = "raise"
    /\ \/ res.exc = "HTTPException" /\ res.status_code = 401
       \/ res.exc = "RuntimeError" /\ res.message = "auth_required"

\* C24: a call of api_request that fails ends with an error, never a
\* normal return; a failure for want of valid credentials ends with an
\* authentication-class outcome and the attempt that met it is the last
\* one, while a status or transport failure ends with the generic
\* upstream error (502).
C24_FailuresTypedAndAuthDistinct ==
    api_call.pc = "done" =>
        /\ (api_call.result.kind = "return")
              <=> (retry_pc = "returned" /\ retry_result.type = "ok")
        /\ CredentialFailure =>
              /\ AuthClass(api_call.result)
              /\ func_calls # <<>> => retry_result = func_calls[Len(func_calls)]
        /\ UpstreamFailure =>
              /\ api_call.result.kind = "raise"
              /\ api_call.result.exc = "HTTPException"
              /\ api_call.result.status_code = 502
              /\ ~AuthClass(api_call.result)
-----------------------------------------------------------------------------
(* Properties of the requests sent, checked under SpecFacade *)

\* the call of func went out to the network: it was answered, or failed in
\* the transport
ReachedNetwork(o) ==
    o.type \in {"ok", "HTTPStatusError", "ConnectError", "TimeoutException"}

\* C34: a request goes out only while the active session has a cached,
\* non-expired entry, and carries the credentials of that entry: every
\* attempt of api_request checks again, so that once the credentials have
\* expired or been cleared the next attempt sends nothing and ends the
\* call; a generated tool called without such an entry sends nothing.
C34_NoRequestWithoutValidCredentials ==
    [][/\ (Len(func_calls') > Len(func_calls))
           => IF HasCurrentCredentials
              THEN ReachedNetwork(func_calls'[Len(func_calls')])
              ELSE /\ ~ReachedNetwork(func_calls'[Len(func_calls')])
                   /\ retry_pc' = "raised"
       /\ (last_call = NoCall /\ last_call' # NoCall)
           => /\ ~HasCurrentCredentials => ~last_call'.result.request.sent
              /\ last_call'.result.request.sent
                    => /\ last_call'.result.request.headers
                              = to_auth_headers(current_credentials)
                       /\ \A k \in DOMAIN to_auth_params(current_credentials) :
                              last_call'.result.request.params[k]
                                  = to_auth_params(current_credentials)[k]
       /\ retry_pc = "raised" => func_calls' = func_calls]_vars

\* The first attempt of api_request went out and failed with a retryable
\* status; by the second attempt the credentials were no longer valid, and
\* it ended the call without a request.
C34_Witness ==
    /\ retry_pc = "raised"
    /\ Len(func_calls) = 2
    /\ func_calls[1].type = "HTTPStatusError"
    /\ func_calls[2].type = "RuntimeError"
    /\ slept = {0}
    /\ ~HasCurrentCredentials

====
